---- MODULE Spec2Model ----
(***************************************************************************)
(* Runtime-interface layer of the LLVM D compiler backend:                 *)
(*   gen/runtime.cpp  - the runtime module M and the two fetch operations  *)
(*   gen/typinf.c     - TypeInfo canonicalisation and emission             *)
(***************************************************************************)
EXTENDS Integers, Sequences, FiniteSets, TLC

VARIABLES
    noruntime,       \* the -noruntime command line switch
    M,               \* static llvm::Module* M (inst = 0 is the NULL pointer)
    runtime_failed,  \* static bool runtime_failed
    builds,          \* number of llvm::Module objects LLVM_D_BuildRuntimeModule has allocated
    targets,         \* the symbol table of every target llvm::Module
    gIR_module,      \* gIR->module, the target module code is generated into
    fatal,           \* "none" while the compiler runs, else the diagnostic it died with
    last,            \* the last registry call and what it returned
    names,           \* the symbol names this compilation asks the registry for
    vtinfo,          \* Type::vtinfo of every merged type
    tids,            \* the TypeInfoDeclaration objects: llvmTouched and llvmValue
    internalTI,      \* static TypeInfoDeclaration *internalTI[TMAX]
    members,         \* Module::members of every front-end module (typeinfo entries)
    lastTI,          \* the last typeinfo call and the declaration it returned
    tyset,           \* the types this compilation asks typeinfo for
    threads          \* the host's threads: where each is in the registry and what it knows of M

rtvars == <<noruntime, M, runtime_failed, builds, targets, gIR_module, fatal, last, names,
            threads>>
tivars == <<vtinfo, tids, internalTI, members, lastTI, tyset>>
vars == <<noruntime, M, runtime_failed, builds, targets, gIR_module, fatal, last, names,
          vtinfo, tids, internalTI, members, lastTI, tyset, threads>>

(***************************************************************************)
(* Bounds of the model                                                     *)
(***************************************************************************)
NumTargets == 2
MaxBuilds == 2
NumCopies == 2
NumUnits == 2

Targets == 1..NumTargets

(***************************************************************************)
(* LLVM values: a declaration is an object (id) with a name, a kind,       *)
(* a type, an attribute list, constness and linkage.                       *)
(***************************************************************************)
NullId == [owner |-> -1, serial |-> 0]
NoType == [ret |-> "", params |-> << >>]
NoDecl == [id |-> NullId, name |-> "", kind |-> "none", ty |-> NoType,
           attrs |-> {}, isConstant |-> FALSE, linkage |-> ""]

\* llvm::Attribute values and the index of the function itself (~0U)
NoAlias == "noalias"
NoCapture == "nocapture"
NoUnwind == "nounwind"
ReadOnly == "readonly"
ReadNone == "readnone"
FnIdx == -1

addAttr(list, idx, attr) == list \cup {<<idx, attr>>}

\* Module::getNamedValue: the symbol of that name, functions and globals share one table
getNamedValue(decls, name) ==
    IF \E d \in decls : d.name = name
    THEN CHOOSE d \in decls : d.name = name
    ELSE NoDecl

\* Module::getFunction: dyn_cast<Function> of the named value
getFunction(decls, name) ==
    LET v == getNamedValue(decls, name)
    IN IF v.kind = "fn" THEN v ELSE NoDecl

\* Module::getNamedGlobal: dyn_cast<GlobalVariable> of the named value
getNamedGlobal(decls, name) ==
    LET v == getNamedValue(decls, name)
    IN IF v.kind = "gv" THEN v ELSE NoDecl

\* a value added to a module under a name that is taken gets a fresh name
uniqueName(decls, name) ==
    IF getNamedValue(decls, name) = NoDecl THEN name ELSE name \o "1"

newId(owner, decls) == [owner |-> owner, serial |-> Cardinality(decls) + 1]

\* llvm::Function::Create(fty, ExternalLinkage, name, module)
FunctionCreate(owner, decls, name, fty, attrs) ==
    decls \cup {[id |-> newId(owner, decls), name |-> uniqueName(decls, name), kind |-> "fn",
                 ty |-> fty, attrs |-> attrs, isConstant |-> FALSE, linkage |-> "external"]}

\* new llvm::GlobalVariable(module, elemty, isConstant, linkage, NULL, name)
GlobalVariableCreate(owner, decls, name, elemty, isConstant, linkage) ==
    decls \cup {[id |-> newId(owner, decls), name |-> uniqueName(decls, name), kind |-> "gv",
                 ty |-> [ret |-> elemty, params |-> << >>], attrs |-> {},
                 isConstant |-> isConstant, linkage |-> linkage]}

(***************************************************************************)
(* LLVM_D_BuildRuntimeModule: the types, the attribute lists and the       *)
(* catalogue of runtime functions, in the order they are created.          *)
(***************************************************************************)
rt_ptr(t) == t \o "*"
sizeTy == "size_t"
rt_array(elemty) == "{" \o sizeTy \o "," \o rt_ptr(elemty) \o "}"
rt_dg1 == "{" \o rt_ptr("i8") \o "," \o rt_ptr("i32(i8*,i8*)") \o "}"
rt_dg2 == "{" \o rt_ptr("i8") \o "," \o rt_ptr("i32(i8*,i8*,i8*)") \o "}"

voidTy == "void"
boolTy == "i1"
byteTy == "i8"
shortTy == "i16"
intTy == "i32"
longTy == "i64"
floatTy == "float"
doubleTy == "double"
cpuIsX86 == TRUE
realTy == IF cpuIsX86 THEN "x86_fp80" ELSE "double"
cfloatTy == "{" \o floatTy \o "," \o floatTy \o "}"
cdoubleTy == "{" \o doubleTy \o "," \o doubleTy \o "}"
crealTy == "{" \o realTy \o "," \o realTy \o "}"
voidPtrTy == rt_ptr(byteTy)
stringTy == rt_array(byteTy)
wstringTy == rt_array(shortTy)
dstringTy == rt_array(intTy)
objectTy == "Object"
classInfoTy == "ClassInfo"
typeInfoTy == "TypeInfo"
aaTy == rt_ptr("opaque")
mutexPtrTy == rt_ptr("Mutex")

NoAttrs == {}
Attr_NoAlias == addAttr(NoAttrs, 0, NoAlias)
Attr_NoUnwind == addAttr(NoAttrs, FnIdx, NoUnwind)
Attr_ReadOnly == addAttr(NoAttrs, FnIdx, ReadOnly)
\* Attr_ReadOnly_NoUnwind without the addAttr of NoUnwind
Attr_ReadOnly_NoUnwind_Throws == Attr_ReadOnly
Attr_ReadOnly_NoUnwind == addAttr(Attr_ReadOnly, FnIdx, NoUnwind)
Attr_ReadOnly_1_NoCapture == addAttr(Attr_ReadOnly, 1, NoCapture)
Attr_ReadOnly_1_3_NoCapture == addAttr(Attr_ReadOnly_1_NoCapture, 3, NoCapture)
Attr_ReadOnly_1_4_NoCapture == addAttr(Attr_ReadOnly_1_NoCapture, 4, NoCapture)
Attr_ReadOnly_NoUnwind_1_NoCapture == addAttr(Attr_ReadOnly_1_NoCapture, FnIdx, NoUnwind)
Attr_ReadNone == addAttr(NoAttrs, FnIdx, ReadNone)
Attr_1_NoCapture == addAttr(NoAttrs, 1, NoCapture)
Attr_NoAlias_1_NoCapture == addAttr(Attr_1_NoCapture, 0, NoAlias)
\* Attr_NoAlias_3_NoCapture built on NoAttrs
Attr_NoAlias_3_NoCapture_NoRet == addAttr(NoAttrs, 3, NoCapture)
Attr_NoAlias_3_NoCapture == addAttr(Attr_NoAlias, 3, NoCapture)
Attr_1_2_NoCapture == addAttr(Attr_1_NoCapture, 2, NoCapture)
Attr_1_3_NoCapture == addAttr(Attr_1_NoCapture, 3, NoCapture)
\* Attr_1_4_NoCapture without the addAttr on parameter 4
Attr_1_4_NoCapture_KeyCaptured == Attr_1_NoCapture
Attr_1_4_NoCapture == addAttr(Attr_1_NoCapture, 4, NoCapture)

Fn(name, ret, params, attrs) ==
    [name |-> name, ty |-> [ret |-> ret, params |-> params], attrs |-> attrs]

\* ARRAY_INIT without the setAttributes
ARRAY_INIT_NoAttrs(TY, suffix) ==
    Fn("_d_array_init_" \o suffix, voidTy, <<rt_ptr(TY), sizeTy, TY>>, NoAttrs)

ARRAY_INIT(TY, suffix) ==
    Fn("_d_array_init_" \o suffix, voidTy, <<rt_ptr(TY), sizeTy, TY>>, Attr_1_NoCapture)

STR_APPLY1(TY, a, b) ==
    << Fn(a, intTy, <<TY, rt_dg1>>, NoAttrs), Fn(b, intTy, <<TY, rt_dg1>>, NoAttrs) >>

STR_APPLY2(TY, a, b) ==
    << Fn(a, intTy, <<TY, rt_dg2>>, NoAttrs), Fn(b, intTy, <<TY, rt_dg2>>, NoAttrs) >>

STR_APPLY_R1(TY, a, b) ==
    << Fn(a, intTy, <<TY, rt_dg1>>, NoAttrs), Fn(b, intTy, <<TY, rt_dg1>>, NoAttrs) >>

STR_APPLY_R2(TY, a, b) ==
    << Fn(a, intTy, <<TY, rt_dg2>>, NoAttrs), Fn(b, intTy, <<TY, rt_dg2>>, NoAttrs) >>

Catalogue ==
    << Fn("_d_assert", voidTy, <<stringTy, intTy>>, NoAttrs),
       Fn("_d_array_bounds", voidTy, <<stringTy, intTy>>, NoAttrs),
       Fn("_d_switch_error", voidTy, <<stringTy, intTy>>, NoAttrs),
       Fn("_d_assert_msg", voidPtrTy, <<stringTy, stringTy, intTy>>, NoAttrs),
       Fn("_d_allocmemoryT", voidPtrTy, <<typeInfoTy>>, Attr_NoAlias),
       Fn("_d_newarrayT", voidPtrTy, <<typeInfoTy, sizeTy>>, Attr_NoAlias),
       Fn("_d_newarrayiT", voidPtrTy, <<typeInfoTy, sizeTy>>, Attr_NoAlias),
       Fn("_d_newarrayvT", voidPtrTy, <<typeInfoTy, sizeTy>>, Attr_NoAlias),
       Fn("_d_newarraymT", voidPtrTy, <<typeInfoTy, sizeTy, rt_ptr(sizeTy)>>, Attr_NoAlias_3_NoCapture),
       Fn("_d_newarraymiT", voidPtrTy, <<typeInfoTy, sizeTy, rt_ptr(sizeTy)>>, Attr_NoAlias_3_NoCapture),
       Fn("_d_newarraymvT", voidPtrTy, <<typeInfoTy, sizeTy, rt_ptr(sizeTy)>>, Attr_NoAlias_3_NoCapture),
       Fn("_d_arraysetlengthT", voidPtrTy, <<typeInfoTy, sizeTy, sizeTy, voidPtrTy>>, NoAttrs),
       Fn("_d_arraysetlengthiT", voidPtrTy, <<typeInfoTy, sizeTy, sizeTy, voidPtrTy>>, NoAttrs),
       Fn("_d_allocclass", voidPtrTy, <<classInfoTy>>, Attr_NoAlias),
       Fn("_d_delarray", voidTy, <<sizeTy, voidPtrTy>>, NoAttrs),
       Fn("_d_delmemory", voidTy, <<voidPtrTy>>, NoAttrs),
       Fn("_d_delinterface", voidTy, <<voidPtrTy>>, NoAttrs),
       Fn("_d_callfinalizer", voidTy, <<voidPtrTy>>, NoAttrs),
       Fn("_d_delclass", voidTy, <<objectTy>>, NoAttrs),
       ARRAY_INIT(shortTy, "i16"),
       ARRAY_INIT(intTy, "i32"),
       ARRAY_INIT(longTy, "i64"),
       ARRAY_INIT(floatTy, "float"),
       ARRAY_INIT(doubleTy, "double"),
       ARRAY_INIT(realTy, "real"),
       ARRAY_INIT(cfloatTy, "cfloat"),
       ARRAY_INIT(cdoubleTy, "cdouble"),
       ARRAY_INIT(crealTy, "creal"),
       ARRAY_INIT(voidPtrTy, "pointer"),
       Fn("_d_array_init_mem", voidTy, <<voidPtrTy, sizeTy, voidPtrTy, sizeTy>>, Attr_1_3_NoCapture),
       Fn("_d_array_slice_copy", voidTy, <<voidPtrTy, sizeTy, voidPtrTy, sizeTy>>, Attr_1_3_NoCapture) >>
    \o STR_APPLY1(stringTy, "_aApplycw1", "_aApplycd1")
    \o STR_APPLY1(wstringTy, "_aApplywc1", "_aApplywd1")
    \o STR_APPLY1(dstringTy, "_aApplydc1", "_aApplydw1")
    \o STR_APPLY2(stringTy, "_aApplycw2", "_aApplycd2")
    \o STR_APPLY2(wstringTy, "_aApplywc2", "_aApplywd2")
    \o STR_APPLY2(dstringTy, "_aApplydc2", "_aApplydw2")
    \o STR_APPLY_R1(stringTy, "_aApplyRcw1", "_aApplyRcd1")
    \o STR_APPLY_R1(wstringTy, "_aApplyRwc1", "_aApplyRwd1")
    \o STR_APPLY_R1(dstringTy, "_aApplyRdc1", "_aApplyRdw1")
    \o STR_APPLY_R2(stringTy, "_aApplyRcw2", "_aApplyRcd2")
    \o STR_APPLY_R2(wstringTy, "_aApplyRwc2", "_aApplyRwd2")
    \o STR_APPLY_R2(dstringTy, "_aApplyRdc2", "_aApplyRdw2")
    \o
    << Fn("_d_array_cast_len", sizeTy, <<sizeTy, sizeTy, sizeTy>>, Attr_ReadNone),
       Fn("_d_toObject", objectTy, <<voidPtrTy>>, Attr_ReadOnly_NoUnwind),
       Fn("_d_interface_cast", objectTy, <<voidPtrTy, classInfoTy>>, Attr_ReadOnly_NoUnwind),
       Fn("_d_dynamic_cast", objectTy, <<objectTy, classInfoTy>>, Attr_ReadOnly_NoUnwind),
       Fn("_adReverseChar", stringTy, <<stringTy>>, NoAttrs),
       Fn("_adSortChar", stringTy, <<stringTy>>, NoAttrs),
       Fn("_adReverseWchar", wstringTy, <<wstringTy>>, NoAttrs),
       Fn("_adSortWchar", wstringTy, <<wstringTy>>, NoAttrs),
       Fn("_adReverse", rt_array(byteTy), <<rt_array(byteTy), sizeTy>>, Attr_NoUnwind),
       Fn("_adDupT", rt_array(byteTy), <<typeInfoTy, rt_array(byteTy)>>, NoAttrs),
       Fn("_adEq", intTy, <<rt_array(byteTy), rt_array(byteTy), typeInfoTy>>, Attr_ReadOnly),
       Fn("_adCmp", intTy, <<rt_array(byteTy), rt_array(byteTy), typeInfoTy>>, Attr_ReadOnly),
       Fn("_adCmpChar", intTy, <<rt_array(byteTy), rt_array(byteTy)>>, Attr_ReadOnly_NoUnwind),
       Fn("_adSort", rt_array(byteTy), <<rt_array(byteTy), typeInfoTy>>, NoAttrs),
       Fn("_aaLen", sizeTy, <<aaTy>>, Attr_ReadOnly_NoUnwind_1_NoCapture),
       Fn("_aaGet", voidPtrTy, <<aaTy, typeInfoTy, sizeTy, voidPtrTy>>, Attr_1_4_NoCapture),
       Fn("_aaIn", voidPtrTy, <<aaTy, typeInfoTy, voidPtrTy>>, Attr_ReadOnly_1_3_NoCapture),
       Fn("_aaDel", voidTy, <<aaTy, typeInfoTy, voidPtrTy>>, Attr_1_3_NoCapture),
       Fn("_aaValues", rt_array(byteTy), <<aaTy, sizeTy, sizeTy>>, Attr_NoAlias_1_NoCapture),
       Fn("_aaRehash", voidPtrTy, <<aaTy, typeInfoTy>>, NoAttrs),
       Fn("_aaKeys", rt_array(byteTy), <<aaTy, sizeTy>>, Attr_NoAlias_1_NoCapture),
       Fn("_aaApply", intTy, <<aaTy, sizeTy, rt_dg1>>, Attr_1_NoCapture),
       Fn("_aaApply2", intTy, <<aaTy, sizeTy, rt_dg2>>, Attr_1_NoCapture),
       Fn("_aaEq", intTy, <<aaTy, aaTy, typeInfoTy>>, Attr_1_2_NoCapture),
       Fn("_moduleCtor", voidTy, << >>, NoAttrs),
       Fn("_moduleDtor", voidTy, << >>, NoAttrs),
       Fn("_d_throw_exception", voidTy, <<objectTy>>, NoAttrs),
       Fn("_d_switch_string", intTy, <<rt_array(stringTy), stringTy>>, Attr_ReadOnly),
       Fn("_d_switch_ustring", intTy, <<rt_array(wstringTy), wstringTy>>, Attr_ReadOnly),
       Fn("_d_switch_dstring", intTy, <<rt_array(dstringTy), dstringTy>>, Attr_ReadOnly),
       Fn("_d_criticalenter", voidTy, <<mutexPtrTy>>, NoAttrs),
       Fn("_d_criticalexit", voidTy, <<mutexPtrTy>>, NoAttrs),
       Fn("_d_monitorenter", voidTy, <<objectTy>>, Attr_1_NoCapture),
       Fn("_d_monitorexit", voidTy, <<objectTy>>, Attr_1_NoCapture),
       Fn("_d_eh_personality", intTy, <<intTy, intTy, longTy, voidPtrTy, voidPtrTy>>, NoAttrs),
       Fn("_d_eh_resume_unwind", voidTy, <<voidPtrTy>>, NoAttrs),
       Fn("_d_invariant", voidTy, <<objectTy>>, NoAttrs) >>

NamesOf(cat) == {cat[i].name : i \in 1..Len(cat)}
CatalogueNames == NamesOf(Catalogue)

\* the module after the i-th Function::Create of the catalogue: every function has the
\* name it was created under, or a fresh one when an earlier function took that name
Created(cat, i) ==
    [id |-> [owner |-> 0, serial |-> i],
     name |-> IF \E j \in 1..(i - 1) : cat[j].name = cat[i].name
              THEN cat[i].name \o "1" ELSE cat[i].name,
     kind |-> "fn", ty |-> cat[i].ty, attrs |-> cat[i].attrs,
     isConstant |-> FALSE, linkage |-> "external"]

CreateFrom(cat) == {Created(cat, i) : i \in 1..Len(cat)}
CreateAll == CreateFrom(Catalogue)

NullModule == [inst |-> 0, decls |-> {}]

\* LLVM_D_BuildRuntimeModule creating the first function of the catalogue a second time
LLVM_D_BuildRuntimeModule_Twice(n) ==
    [inst |-> n, decls |-> CreateFrom(Catalogue \o <<Catalogue[1]>>)]

\* M = new llvm::Module(...), then every Function::Create of the catalogue
LLVM_D_BuildRuntimeModule(n) == [inst |-> n, decls |-> CreateAll]

(***************************************************************************)
(* The registry: LLVM_D_InitRuntime, LLVM_D_FreeRuntime,                   *)
(* LLVM_D_GetRuntimeFunction, LLVM_D_GetRuntimeGlobal                      *)
(***************************************************************************)
PolicyViolation == "PolicyViolation"
AssertRuntimeFailed == "assert(!runtime_failed)"
FunctionNotFound == {"RuntimeFunctionNotFound:assert", "RuntimeFunctionNotFound:nullderef"}
GlobalNotFound == "RuntimeGlobalNotFound"
RuntimeSymbolMissing == FunctionNotFound \cup {GlobalNotFound}

Call(op, target, name, outcome, handle) ==
    [op |-> op, target |-> target, name |-> name, outcome |-> outcome, handle |-> handle]
NoCall == Call("none", 0, "", "none", NullId)

\* LLVM_D_InitRuntime without the test of M: every call builds a module
InitRuntime_Rebuild ==
    [M |-> LLVM_D_BuildRuntimeModule(builds + 1), builds |-> builds + 1]

\* LLVM_D_InitRuntime with a test that a module was ever built in place of the test
\* of M: nothing is built after a free
InitRuntime_Once ==
    IF builds = 0
    THEN [M |-> LLVM_D_BuildRuntimeModule(builds + 1), builds |-> builds + 1]
    ELSE [M |-> M, builds |-> builds]

\* LLVM_D_InitRuntime(): M is built on first use and kept otherwise
InitRuntime ==
    IF M.inst = 0
    THEN [M |-> LLVM_D_BuildRuntimeModule(builds + 1), builds |-> builds + 1]
    ELSE [M |-> M, builds |-> builds]

\* the registry's variables after a call that left the runtime module and its count as rt
KeepRuntime(rt) ==
    /\ M' = rt.M
    /\ builds' = rt.builds

\* a call of LLVM_D_InitRuntime by the driver
LLVM_D_InitRuntime ==
    /\ fatal = "none"
    /\ KeepRuntime(InitRuntime)
    /\ last' = Call("initRuntime", 0, "", "true", NullId)
    /\ UNCHANGED <<threads, noruntime, runtime_failed, targets, gIR_module, fatal, names>>
    /\ UNCHANGED tivars

\* LLVM_D_FreeRuntime setting runtime_failed when it frees
LLVM_D_FreeRuntime_MarksFailed ==
    /\ fatal = "none"
    /\ M.inst # 0 => builds < MaxBuilds
    /\ M' = IF M.inst # 0 THEN NullModule ELSE M
    /\ runtime_failed' = TRUE
    /\ last' = Call("freeRuntime", 0, "", "void", NullId)
    /\ UNCHANGED <<threads, noruntime, builds, targets, gIR_module, fatal, names>>
    /\ UNCHANGED tivars

\* LLVM_D_FreeRuntime deleting with M the functions the targets took from it
LLVM_D_FreeRuntime_ClearsTargets ==
    /\ fatal = "none"
    /\ M.inst # 0 => builds < MaxBuilds
    /\ M' = IF M.inst # 0 THEN NullModule ELSE M
    /\ targets' = [t \in Targets |-> {d \in targets[t] : d.kind = "gv"}]
    /\ last' = Call("freeRuntime", 0, "", "void", NullId)
    /\ UNCHANGED <<threads, noruntime, runtime_failed, builds, gIR_module, fatal, names>>
    /\ UNCHANGED tivars

\* LLVM_D_FreeRuntime(): delete M and M = NULL when M is set
LLVM_D_FreeRuntime ==
    /\ fatal = "none"
    /\ M.inst # 0 => builds < MaxBuilds
    /\ M' = IF M.inst # 0 THEN NullModule ELSE M
    /\ last' = Call("freeRuntime", 0, "", "void", NullId)
    /\ UNCHANGED <<threads, noruntime, runtime_failed, builds, targets, gIR_module, fatal, names>>
    /\ UNCHANGED tivars

\* Module::getOrInsertFunction: the symbol of that name if there is one, else a new function
getOrInsertFunction(owner, decls, name, fnty) ==
    IF getNamedValue(decls, name) # NoDecl THEN decls
    ELSE FunctionCreate(owner, decls, name, fnty, {})

setAttributes(decls, id, attrs) ==
    {IF d.id = id THEN [d EXCEPT !.attrs = attrs] ELSE d : d \in decls}

\* the state a registry call leaves and what it hands back
Effect(m, b, tg, f, outcome, handle) ==
    [M |-> m, builds |-> b, targets |-> tg, fatal |-> f, outcome |-> outcome, handle |-> handle]

\* LLVM_D_GetRuntimeFunction moving M's function into the target instead of declaring
\* a new one: the runtime module loses it
FunctionFromRuntime_Move(target, name, how, rt) ==
    LET fn == getFunction(targets[target], name)
        rfn == getFunction(rt.M.decls, name)
        ins == getOrInsertFunction(target, targets[target], name, rfn.ty)
        resfn == getNamedValue(ins, name)
    IN  IF fn # NoDecl
        THEN Effect(rt.M, rt.builds, targets, "none", "ok", fn.id)
        ELSE IF rfn = NoDecl
        THEN Effect(rt.M, rt.builds, targets, how, how, NullId)
        ELSE Effect([rt.M EXCEPT !.decls = @ \ {rfn}], rt.builds,
                    [targets EXCEPT ![target] = setAttributes(ins, resfn.id, rfn.attrs)],
                    "none", "ok", resfn.id)

\* LLVM_D_GetRuntimeFunction from the lookup in the target on, once M is there:
\* rt is the runtime module and the count of builds LLVM_D_InitRuntime left
FunctionFromRuntime(target, name, how, rt) ==
    LET fn == getFunction(targets[target], name)
        rfn == getFunction(rt.M.decls, name)
        ins == getOrInsertFunction(target, targets[target], name, rfn.ty)
        resfn == getNamedValue(ins, name)
    IN  IF fn # NoDecl
        THEN Effect(rt.M, rt.builds, targets, "none", "ok", fn.id)
        ELSE IF rfn = NoDecl
        THEN Effect(rt.M, rt.builds, targets, how, how, NullId)
        ELSE Effect(rt.M, rt.builds,
                    [targets EXCEPT ![target] = setAttributes(ins, resfn.id, rfn.attrs)],
                    "none", "ok", resfn.id)

\* LLVM_D_GetRuntimeGlobal from the lookup in M on, once M is there
GlobalFromRuntime(target, name, rt) ==
    LET g == getNamedGlobal(rt.M.decls, name)
        ins == GlobalVariableCreate(target, targets[target], g.name,
                                    g.ty.ret, g.isConstant, g.linkage)
    IN  IF g = NoDecl
        THEN Effect(rt.M, rt.builds, targets, GlobalNotFound, GlobalNotFound, NullId)
        ELSE Effect(rt.M, rt.builds, [targets EXCEPT ![target] = ins],
                    "none", "ok", newId(target, targets[target]))

\* LLVM_D_GetRuntimeFunction without the lookup in the target: it always creates
GetRuntimeFunction_NoLookup(target, name, how) ==
    IF noruntime
    THEN Effect(M, builds, targets, PolicyViolation, PolicyViolation, NullId)
    ELSE LET rfn == getFunction(InitRuntime.M.decls, name)
             id == newId(target, targets[target])
             ins == FunctionCreate(target, targets[target], name, rfn.ty, {})
         IN  IF rfn = NoDecl
             THEN Effect(InitRuntime.M, InitRuntime.builds, targets, how, how, NullId)
             ELSE Effect(InitRuntime.M, InitRuntime.builds,
                         [targets EXCEPT ![target] = setAttributes(ins, id, rfn.attrs)],
                         "none", "ok", id)

\* LLVM_D_GetRuntimeFunction without the test of noruntime
GetRuntimeFunction_NoPolicy(target, name, how) ==
    LET fn == getFunction(targets[target], name)
        rfn == getFunction(InitRuntime.M.decls, name)
        ins == getOrInsertFunction(target, targets[target], name, rfn.ty)
        resfn == getNamedValue(ins, name)
    IN  IF fn # NoDecl
        THEN Effect(InitRuntime.M, InitRuntime.builds, targets, "none", "ok", fn.id)
        ELSE IF rfn = NoDecl
        THEN Effect(InitRuntime.M, InitRuntime.builds, targets, how, how, NullId)
        ELSE Effect(InitRuntime.M, InitRuntime.builds,
                    [targets EXCEPT ![target] = setAttributes(ins, resfn.id, rfn.attrs)],
                    "none", "ok", resfn.id)

\* LLVM_D_GetRuntimeFunction with the lookup in the target moved to the top
GetRuntimeFunction_LookupFirst(target, name, how) ==
    LET fn == getFunction(targets[target], name)
        rfn == getFunction(InitRuntime.M.decls, name)
        ins == getOrInsertFunction(target, targets[target], name, rfn.ty)
        resfn == getNamedValue(ins, name)
    IN  IF fn # NoDecl
        THEN Effect(M, builds, targets, "none", "ok", fn.id)
        ELSE IF noruntime
        THEN Effect(M, builds, targets, PolicyViolation, PolicyViolation, NullId)
        ELSE IF rfn = NoDecl
        THEN Effect(InitRuntime.M, InitRuntime.builds, targets, how, how, NullId)
        ELSE Effect(InitRuntime.M, InitRuntime.builds,
                    [targets EXCEPT ![target] = setAttributes(ins, resfn.id, rfn.attrs)],
                    "none", "ok", resfn.id)

\* LLVM_D_GetRuntimeFunction setting the runtime's attributes on a declaration it found
GetRuntimeFunction_Reapply(target, name, how) ==
    IF noruntime
    THEN Effect(M, builds, targets, PolicyViolation, PolicyViolation, NullId)
    ELSE LET rfn == getFunction(InitRuntime.M.decls, name)
             ins == getOrInsertFunction(target, targets[target], name, rfn.ty)
             resfn == getNamedValue(ins, name)
         IN  IF rfn = NoDecl
             THEN IF getFunction(targets[target], name) # NoDecl
                  THEN Effect(InitRuntime.M, InitRuntime.builds, targets, "none", "ok",
                              getFunction(targets[target], name).id)
                  ELSE Effect(InitRuntime.M, InitRuntime.builds, targets, how, how, NullId)
             ELSE Effect(InitRuntime.M, InitRuntime.builds,
                         [targets EXCEPT ![target] = setAttributes(ins, resfn.id, rfn.attrs)],
                         "none", "ok", resfn.id)

\* LLVM_D_GetRuntimeFunction without the setAttributes of the new declaration
GetRuntimeFunction_NoAttrs(target, name, how) ==
    IF noruntime
    THEN Effect(M, builds, targets, PolicyViolation, PolicyViolation, NullId)
    ELSE LET fn == getFunction(targets[target], name)
             rfn == getFunction(InitRuntime.M.decls, name)
             ins == getOrInsertFunction(target, targets[target], name, rfn.ty)
             resfn == getNamedValue(ins, name)
         IN  IF fn # NoDecl
             THEN Effect(InitRuntime.M, InitRuntime.builds, targets, "none", "ok", fn.id)
             ELSE IF rfn = NoDecl
             THEN Effect(InitRuntime.M, InitRuntime.builds, targets, how, how, NullId)
             ELSE Effect(InitRuntime.M, InitRuntime.builds,
                         [targets EXCEPT ![target] = ins], "none", "ok", resfn.id)

\* LLVM_D_GetRuntimeFunction returning NULL for a function the runtime module lacks
GetRuntimeFunction_ReturnNull(target, name, how) ==
    IF noruntime
    THEN Effect(M, builds, targets, PolicyViolation, PolicyViolation, NullId)
    ELSE LET fn == getFunction(targets[target], name)
             rfn == getFunction(InitRuntime.M.decls, name)
             ins == getOrInsertFunction(target, targets[target], name, rfn.ty)
             resfn == getNamedValue(ins, name)
         IN  IF fn # NoDecl
             THEN Effect(InitRuntime.M, InitRuntime.builds, targets, "none", "ok", fn.id)
             ELSE IF rfn = NoDecl
             THEN Effect(InitRuntime.M, InitRuntime.builds, targets, "none", "ok", NullId)
             ELSE Effect(InitRuntime.M, InitRuntime.builds,
                         [targets EXCEPT ![target] = setAttributes(ins, resfn.id, rfn.attrs)],
                         "none", "ok", resfn.id)

\* LLVM_D_GetRuntimeFunction(target, name); how: the way a missing function ends the run
GetRuntimeFunction(target, name, how) ==
    IF noruntime
    THEN Effect(M, builds, targets, PolicyViolation, PolicyViolation, NullId)
    ELSE IF M.inst = 0 /\ runtime_failed
    THEN Effect(M, builds, targets, AssertRuntimeFailed, AssertRuntimeFailed, NullId)
    ELSE FunctionFromRuntime(target, name, how, InitRuntime)

\* LLVM_D_GetRuntimeGlobal with the test of M and the build before the test of noruntime
GetRuntimeGlobal_BuildFirst(target, name) ==
    LET gv == getNamedGlobal(targets[target], name)
    IN  IF gv # NoDecl
        THEN Effect(M, builds, targets, "none", "ok", gv.id)
        ELSE IF M.inst = 0 /\ runtime_failed
        THEN Effect(M, builds, targets, AssertRuntimeFailed, AssertRuntimeFailed, NullId)
        ELSE IF noruntime
        THEN Effect(InitRuntime.M, InitRuntime.builds, targets,
                    PolicyViolation, PolicyViolation, NullId)
        ELSE GlobalFromRuntime(target, name, InitRuntime)

\* LLVM_D_GetRuntimeGlobal(target, name)
GetRuntimeGlobal(target, name) ==
    LET gv == getNamedGlobal(targets[target], name)
    IN  IF gv # NoDecl
        THEN Effect(M, builds, targets, "none", "ok", gv.id)
        ELSE IF noruntime
        THEN Effect(M, builds, targets, PolicyViolation, PolicyViolation, NullId)
        ELSE IF M.inst = 0 /\ runtime_failed
        THEN Effect(M, builds, targets, AssertRuntimeFailed, AssertRuntimeFailed, NullId)
        ELSE GlobalFromRuntime(target, name, InitRuntime)

\* the registry's variables after the fetch call op that had the effect e
ApplyRt(e, op, target, name) ==
    /\ M' = e.M
    /\ builds' = e.builds
    /\ targets' = e.targets
    /\ fatal' = e.fatal
    /\ last' = Call(op, target, name, e.outcome, e.handle)

\* a call of LLVM_D_GetRuntimeFunction by the code generator
LLVM_D_GetRuntimeFunction(target, name) ==
    /\ fatal = "none"
    /\ \E how \in FunctionNotFound :
         ApplyRt(GetRuntimeFunction(target, name, how), "fetchFunction", target, name)
    /\ UNCHANGED <<threads, noruntime, runtime_failed, gIR_module, names>>
    /\ UNCHANGED tivars

\* a call of LLVM_D_GetRuntimeGlobal by the code generator
LLVM_D_GetRuntimeGlobal(target, name) ==
    /\ fatal = "none"
    /\ ApplyRt(GetRuntimeGlobal(target, name), "fetchGlobal", target, name)
    /\ UNCHANGED <<threads, noruntime, runtime_failed, gIR_module, names>>
    /\ UNCHANGED tivars

(***************************************************************************)
(* The code generator: it declares symbols of its own in a target module   *)
(***************************************************************************)
UnknownFunction == "_d_nosuchfn"
IsFunctionName(name) == name \in CatalogueNames \cup {UnknownFunction}
UserAttrLists == {NoAttrs, Attr_NoUnwind}
UserFnTy == [ret |-> voidTy, params |-> <<voidPtrTy>>]
UserGlobalTy == "TypeInfo_init"

DeclareInTarget(target, name, attrs) ==
    /\ fatal = "none"
    /\ getNamedValue(targets[target], name) = NoDecl
    /\ targets' = [targets EXCEPT ![target] =
                     IF IsFunctionName(name)
                     THEN FunctionCreate(target, @, name, UserFnTy, attrs)
                     ELSE GlobalVariableCreate(target, @, name, UserGlobalTy, TRUE, "external")]
    /\ UNCHANGED <<threads, noruntime, M, runtime_failed, builds, gIR_module, fatal, last, names>>
    /\ UNCHANGED tivars

(***************************************************************************)
(* The front end's types.  A Type object has a kind (ty), the symbol or    *)
(* dimension that tells it from others of its kind, its element type (next)*)
(* and copy: copy 0 is the object held by the type table, the others are   *)
(* structurally identical objects that were not merged.                    *)
(***************************************************************************)
TY == {"Tarray", "Tsarray", "Taarray", "Tpointer", "Tfunction", "Tclass", "Tstruct",
       "Tenum", "Ttypedef", "Tdelegate", "Ttuple", "Tint32", "Tchar"}

LeafSyms == {"int", "char", "S", "C", "D", "I", "J", "E", "A", "F", "G", "Dg", "Dh", "Tup"}

LeafTy(sym) ==
    CASE sym = "int" -> "Tint32"
      [] sym = "char" -> "Tchar"
      [] sym = "S" -> "Tstruct"
      [] sym \in {"C", "D", "I", "J"} -> "Tclass"
      [] sym = "E" -> "Tenum"
      [] sym = "A" -> "Ttypedef"
      [] sym \in {"F", "G"} -> "Tfunction"
      [] sym \in {"Dg", "Dh"} -> "Tdelegate"
      [] OTHER -> "Ttuple"

Type(ty, sym, next, copy) == [ty |-> ty, sym |-> sym, next |-> next, copy |-> copy]
NoTypeObj == Type("", "", "", 0)
Leaf(sym) == Type(LeafTy(sym), sym, "", 0)
staticArrayOf(sym) == Type("Tsarray", "3", sym, 0)
dynamicArrayOf(sym) == Type("Tarray", "", sym, 0)
pointerTo(sym) == Type("Tpointer", "", sym, 0)
assocArrayOf(sym) == Type("Taarray", "", sym, 0)

\* every type of the compilation, as the type table holds it
ElemSyms == {"int", "S", "C", "I", "E", "A"}
Shapes == {Leaf(x) : x \in LeafSyms}
          \cup {staticArrayOf(x) : x \in ElemSyms}
          \cup {dynamicArrayOf(x) : x \in ElemSyms}
          \cup {pointerTo(x) : x \in ElemSyms}
          \cup {assocArrayOf("int")}


\* Type::next of an array, pointer or associative array type
next(t) == Leaf(t.next)

\* Type::merge(): the type table's object for this structure
merge(t) == [t EXCEPT !.copy = 0]

\* Type::arrayOf(): the merged dynamic array type of t
arrayOf(t) == dynamicArrayOf(t.sym)

\* TypeEnum::memtype and TypeTypedef's basetype
memtype(t) == IF t.sym = "E" THEN Leaf("int") ELSE Leaf("C")

\* Type::toBasetype(): enums and typedefs give the type under them
toBasetype(t) == IF t.ty \in {"Tenum", "Ttypedef"} THEN memtype(t) ELSE t

\* Type::isTypeBasic() != NULL
isTypeBasic(t) == t.ty \in {"Tint32", "Tchar"}

\* ((TypeClass *)t)->sym->isInterfaceDeclaration()
isInterfaceDeclaration(t) == t.sym \in {"I", "J"}

\* the encoding of a type in a mangled name
deco(t) ==
    CASE t.ty = "Tarray" -> "A" \o t.next
      [] t.ty = "Tsarray" -> "G" \o t.sym \o t.next
      [] t.ty = "Tpointer" -> "P" \o t.next
      [] t.ty = "Taarray" -> "H" \o t.next
      [] OTHER -> t.sym

(***************************************************************************)
(* gen/typinf.c                                                            *)
(***************************************************************************)
\* a TypeInfoDeclaration object: its type, the internal flag of its constructor, the
\* class the generator made it of, and n that tells objects made alike from each other
Tid(tinfo, internal, cls, n) == [tinfo |-> tinfo, internal |-> internal, cls |-> cls, n |-> n]
NoTid == Tid(NoTypeObj, 0, "", 0)

\* VarDeclaration::mangle() of a TypeInfoDeclaration
mangle(tid) ==
    "_D" \o "TypeInfo_"
         \o (IF tid.internal = 1
             THEN tid.tinfo.ty \o (IF tid.tinfo.ty = "Tarray" THEN "Tclass" ELSE "")
             ELSE deco(tid.tinfo))
         \o "6__initZ"

\* getTypeInfoDeclaration without the base method's declaration: a kind that has no
\* override gets none
getTypeInfoDeclaration_NoBase(t) ==
    CASE t.ty = "Ttypedef" -> "TypeInfoTypedefDeclaration"
      [] t.ty = "Tpointer" -> "TypeInfoPointerDeclaration"
      [] t.ty = "Tarray" -> "TypeInfoArrayDeclaration"
      [] t.ty = "Tsarray" -> "TypeInfoStaticArrayDeclaration"
      [] t.ty = "Taarray" -> "TypeInfoAssociativeArrayDeclaration"
      [] t.ty = "Tstruct" -> "TypeInfoStructDeclaration"
      [] t.ty = "Tclass" -> IF isInterfaceDeclaration(t)
                            THEN "TypeInfoInterfaceDeclaration"
                            ELSE "TypeInfoClassDeclaration"
      [] t.ty = "Tenum" -> "TypeInfoEnumDeclaration"
      [] t.ty = "Tfunction" -> "TypeInfoFunctionDeclaration"
      [] t.ty = "Tdelegate" -> "TypeInfoDelegateDeclaration"
      [] t.ty = "Ttuple" -> "TypeInfoTupleDeclaration"
      [] OTHER -> ""

\* getTypeInfoDeclaration with TypeClass's override making a class declaration always
getTypeInfoDeclaration_ClassOnly(t) ==
    CASE t.ty = "Ttypedef" -> "TypeInfoTypedefDeclaration"
      [] t.ty = "Tpointer" -> "TypeInfoPointerDeclaration"
      [] t.ty = "Tarray" -> "TypeInfoArrayDeclaration"
      [] t.ty = "Tsarray" -> "TypeInfoStaticArrayDeclaration"
      [] t.ty = "Taarray" -> "TypeInfoAssociativeArrayDeclaration"
      [] t.ty = "Tstruct" -> "TypeInfoStructDeclaration"
      [] t.ty = "Tclass" -> "TypeInfoClassDeclaration"
      [] t.ty = "Tenum" -> "TypeInfoEnumDeclaration"
      [] t.ty = "Tfunction" -> "TypeInfoFunctionDeclaration"
      [] t.ty = "Tdelegate" -> "TypeInfoDelegateDeclaration"
      [] t.ty = "Ttuple" -> "TypeInfoTupleDeclaration"
      [] OTHER -> "TypeInfoDeclaration"

\* Type::getTypeInfoDeclaration() and its overrides: the class of the new declaration
getTypeInfoDeclaration(t) ==
    CASE t.ty = "Ttypedef" -> "TypeInfoTypedefDeclaration"
      [] t.ty = "Tpointer" -> "TypeInfoPointerDeclaration"
      [] t.ty = "Tarray" -> "TypeInfoArrayDeclaration"
      [] t.ty = "Tsarray" -> "TypeInfoStaticArrayDeclaration"
      [] t.ty = "Taarray" -> "TypeInfoAssociativeArrayDeclaration"
      [] t.ty = "Tstruct" -> "TypeInfoStructDeclaration"
      [] t.ty = "Tclass" -> IF isInterfaceDeclaration(t)
                            THEN "TypeInfoInterfaceDeclaration"
                            ELSE "TypeInfoClassDeclaration"
      [] t.ty = "Tenum" -> "TypeInfoEnumDeclaration"
      [] t.ty = "Tfunction" -> "TypeInfoFunctionDeclaration"
      [] t.ty = "Tdelegate" -> "TypeInfoDelegateDeclaration"
      [] t.ty = "Ttuple" -> "TypeInfoTupleDeclaration"
      [] OTHER -> "TypeInfoDeclaration"

\* builtinTypeInfo with TypeDArray's override in TypeSArray as well
builtinTypeInfo_Elem(t) ==
    CASE isTypeBasic(t) -> TRUE
      [] t.ty \in {"Tarray", "Tsarray"} -> isTypeBasic(next(t))
      [] OTHER -> FALSE

\* Type::builtinTypeInfo() and its overrides in TypeBasic and TypeDArray
builtinTypeInfo(t) ==
    CASE isTypeBasic(t) -> TRUE
      [] t.ty = "Tarray" -> isTypeBasic(next(t))
      [] OTHER -> FALSE

\* new TypeInfoDeclaration(t, internal): an object no earlier one is identical to
newTid(objs, t, internal, cls) ==
    Tid(t, internal, cls,
        1 + Cardinality({x \in DOMAIN objs : x.tinfo = t /\ x.internal = internal}))

Fresh == [llvmTouched |-> FALSE, llvmValue |-> NullId]
addTid(objs, tid) == [x \in DOMAIN objs \cup {tid} |-> IF x \in DOMAIN objs THEN objs[x] ELSE Fresh]

\* the front-end modules: the first NumUnits are compiled to object files, the last
\* one is imported from the first of those
FeModules == 1..(NumUnits + 1)
importedFrom(m) == IF m <= NumUnits THEN m ELSE 1

\* the state a typeinfo call leaves and the declaration it hands back
TiEffect(vt, objs, iti, mem, e, ret) ==
    [vtinfo |-> vt, tids |-> objs, internalTI |-> iti, members |-> mem,
     M |-> e.M, builds |-> e.builds, targets |-> e.targets, fatal |-> e.fatal,
     last |-> e.last, ret |-> ret]

\* the registry state when no registry call is made
NoEffect == [M |-> M, builds |-> builds, targets |-> targets, fatal |-> fatal, last |-> last]

\* llvmTouched = true; llvmValue = e's handle, e being the effect of the fetch
Touched(objs, tid, e) ==
    [tids |-> [objs EXCEPT ![tid] = [llvmTouched |-> TRUE, llvmValue |-> e.handle]],
     reg |-> [M |-> e.M, builds |-> e.builds, targets |-> e.targets,
              fatal |-> e.fatal,
              last |-> Call("fetchGlobal", gIR_module, mangle(tid), e.outcome, e.handle)]]

\* t->vtinfo->toObjFile() in getTypeInfo: emit is what toObjFile left
Generated(vt, emit, tid) ==
    TiEffect(vt, emit.tids, internalTI, members, emit.reg,
             IF emit.reg.fatal = "none" THEN tid ELSE NoTid)

\* TypeInfoDeclaration::toObjFile() without the test of llvmTouched
toObjFile_NoLatch(objs, tid) ==
    Touched(objs, tid, GetRuntimeGlobal(gIR_module, mangle(tid)))

\* TypeInfoDeclaration::toObjFile() without the assignment of llvmValue
toObjFile_NoValue(objs, tid) ==
    IF objs[tid].llvmTouched
    THEN [tids |-> objs, reg |-> NoEffect]
    ELSE Touched(objs, tid, [GetRuntimeGlobal(gIR_module, mangle(tid)) EXCEPT !.handle = NullId])

\* TypeInfoDeclaration::toObjFile() on the declaration tid, given the objects objs
toObjFile(objs, tid) ==
    IF objs[tid].llvmTouched
    THEN [tids |-> objs, reg |-> NoEffect]
    ELSE Touched(objs, tid, GetRuntimeGlobal(gIR_module, mangle(tid)))

\* Type::getTypeInfo without the merge(): the object it is called on keeps the declaration
getTypeInfo_NoMerge(t0, sc) ==
    LET t == t0
    IN  IF vtinfo[t] # NoTid
        THEN TiEffect(vtinfo, tids, internalTI, members, NoEffect, vtinfo[t])
        ELSE LET tid == newTid(tids, t, 0, getTypeInfoDeclaration(t))
                 vt == [vtinfo EXCEPT ![t] = tid]
                 objs == addTid(tids, tid)
                 m == importedFrom(sc)
             IN  IF builtinTypeInfo(t)
                 THEN TiEffect(vt, objs, internalTI, members, NoEffect, tid)
                 ELSE IF sc # 0
                 THEN TiEffect(vt, objs, internalTI,
                               [members EXCEPT ![m] = Append(@, tid)], NoEffect, tid)
                 ELSE Generated(vt, toObjFile(objs, tid), tid)

\* Type::getTypeInfo with the push outside the test of vtinfo: every request from a
\* semantic scope appends the declaration
getTypeInfo_PushAlways(t0, sc) ==
    LET t == merge(t0)
        m == importedFrom(sc)
    IN  IF vtinfo[t] # NoTid
        THEN TiEffect(vtinfo, tids, internalTI,
                      IF sc # 0 /\ ~builtinTypeInfo(t)
                      THEN [members EXCEPT ![m] = Append(@, vtinfo[t])] ELSE members,
                      NoEffect, vtinfo[t])
        ELSE LET tid == newTid(tids, t, 0, getTypeInfoDeclaration(t))
                 vt == [vtinfo EXCEPT ![t] = tid]
                 objs == addTid(tids, tid)
             IN  IF builtinTypeInfo(t)
                 THEN TiEffect(vt, objs, internalTI, members, NoEffect, tid)
                 ELSE IF sc # 0
                 THEN TiEffect(vt, objs, internalTI,
                               [members EXCEPT ![m] = Append(@, tid)], NoEffect, tid)
                 ELSE Generated(vt, toObjFile(objs, tid), tid)

\* Type::getTypeInfo without the test of vtinfo: every request makes a new declaration
getTypeInfo_Refill(t0, sc) ==
    LET t == merge(t0)
        tid == newTid(tids, t, 0, getTypeInfoDeclaration(t))
        vt == [vtinfo EXCEPT ![t] = tid]
        objs == addTid(tids, tid)
        m == importedFrom(sc)
    IN  IF builtinTypeInfo(t)
        THEN TiEffect(vt, objs, internalTI, members, NoEffect, tid)
        ELSE IF sc # 0
        THEN TiEffect(vt, objs, internalTI,
                      [members EXCEPT ![m] = Append(@, tid)], NoEffect, tid)
        ELSE Generated(vt, toObjFile(objs, tid), tid)

\* Type::getTypeInfo without the test of builtinTypeInfo(): builtin types are listed or
\* emitted like the others
getTypeInfo_NoBuiltinTest(t0, sc) ==
    LET t == merge(t0)
    IN  IF vtinfo[t] # NoTid
        THEN TiEffect(vtinfo, tids, internalTI, members, NoEffect, vtinfo[t])
        ELSE LET tid == newTid(tids, t, 0, getTypeInfoDeclaration(t))
                 vt == [vtinfo EXCEPT ![t] = tid]
                 objs == addTid(tids, tid)
                 m == importedFrom(sc)
             IN  IF sc # 0
                 THEN TiEffect(vt, objs, internalTI,
                               [members EXCEPT ![m] = Append(@, tid)], NoEffect, tid)
                 ELSE Generated(vt, toObjFile(objs, tid), tid)

\* Type::getTypeInfo with toObjFile() outside the else: a declaration made from a
\* semantic scope is listed and emitted at once
getTypeInfo_PushAndEmit(t0, sc) ==
    LET t == merge(t0)
    IN  IF vtinfo[t] # NoTid
        THEN TiEffect(vtinfo, tids, internalTI, members, NoEffect, vtinfo[t])
        ELSE LET tid == newTid(tids, t, 0, getTypeInfoDeclaration(t))
                 vt == [vtinfo EXCEPT ![t] = tid]
                 objs == addTid(tids, tid)
                 m == importedFrom(sc)
                 emit == toObjFile(objs, tid)
             IN  IF builtinTypeInfo(t)
                 THEN TiEffect(vt, objs, internalTI, members, NoEffect, tid)
                 ELSE TiEffect(vt, emit.tids, internalTI,
                               IF sc # 0 THEN [members EXCEPT ![m] = Append(@, tid)]
                               ELSE members,
                               emit.reg, IF emit.reg.fatal = "none" THEN tid ELSE NoTid)

\* Type::getTypeInfo(sc) on the type object t0; sc = 0 is the null scope of the
\* object generation pass, any other sc is a scope of the module sc
getTypeInfo(t0, sc) ==
    LET t == merge(t0)
    IN  IF vtinfo[t] # NoTid
        THEN TiEffect(vtinfo, tids, internalTI, members, NoEffect, vtinfo[t])
        ELSE LET tid == newTid(tids, t, 0, getTypeInfoDeclaration(t))
                 vt == [vtinfo EXCEPT ![t] = tid]
                 objs == addTid(tids, tid)
                 m == importedFrom(sc)
             IN  IF builtinTypeInfo(t)
                 THEN TiEffect(vt, objs, internalTI, members, NoEffect, tid)
                 ELSE IF sc # 0
                 THEN TiEffect(vt, objs, internalTI,
                               [members EXCEPT ![m] = Append(@, tid)], NoEffect, tid)
                 ELSE Generated(vt, toObjFile(objs, tid), tid)

\* Linternal without the test of the slot: every call makes a new declaration
Linternal_NoCache(t) ==
    LET tid == newTid(tids, t, 1, "TypeInfoDeclaration")
    IN  TiEffect(vtinfo, addTid(tids, tid), [internalTI EXCEPT ![t.ty] = tid],
                 members, NoEffect, tid)

\* Linternal with a test of the slot's type: a slot filled for another type is refilled
Linternal_PerType(t) ==
    LET old == internalTI[t.ty]
        tid == IF old # NoTid /\ old.tinfo = t THEN old
               ELSE newTid(tids, t, 1, "TypeInfoDeclaration")
    IN  TiEffect(vtinfo, IF old # NoTid /\ old.tinfo = t THEN tids ELSE addTid(tids, tid),
                 [internalTI EXCEPT ![t.ty] = tid], members, NoEffect, tid)

\* Linternal keeping the new declaration in the type's vtinfo as well
Linternal_Attach(t) ==
    LET old == internalTI[t.ty]
        tid == IF old # NoTid THEN old ELSE newTid(tids, t, 1, "TypeInfoDeclaration")
    IN  TiEffect([vtinfo EXCEPT ![merge(t)] = tid],
                 IF old # NoTid THEN tids ELSE addTid(tids, tid),
                 [internalTI EXCEPT ![t.ty] = tid], members, NoEffect, tid)

\* the slot of internalTI[] a type of kind ty uses
Linternal(t) ==
    LET old == internalTI[t.ty]
        tid == IF old # NoTid THEN old ELSE newTid(tids, t, 1, "TypeInfoDeclaration")
    IN  TiEffect(vtinfo, IF old # NoTid THEN tids ELSE addTid(tids, tid),
                 [internalTI EXCEPT ![t.ty] = tid], members, NoEffect, tid)

\* Type::getInternalTypeInfo without the test for interfaces: every class goes to Linternal
getInternalTypeInfo_NoInterface(t0, sc) ==
    LET t == toBasetype(t0)
        goto_Linternal ==
            CASE t.ty = "Tsarray" -> FALSE
              [] t.ty = "Tclass" -> TRUE
              [] t.ty = "Tarray" -> ~(next(t).ty # "Tclass")
              [] t.ty \in {"Tfunction", "Tdelegate", "Tpointer"} -> TRUE
              [] OTHER -> FALSE
    IN  IF goto_Linternal
        THEN Linternal(t)
        ELSE getTypeInfo(IF t.ty = "Tsarray" THEN arrayOf(next(t)) ELSE t, sc)

\* Type::getInternalTypeInfo without the case Tsarray
getInternalTypeInfo_NoSarray(t0, sc) ==
    LET t == toBasetype(t0)
        goto_Linternal ==
            CASE t.ty = "Tclass" -> ~isInterfaceDeclaration(t)
              [] t.ty = "Tarray" -> ~(next(t).ty # "Tclass")
              [] t.ty \in {"Tfunction", "Tdelegate", "Tpointer"} -> TRUE
              [] OTHER -> FALSE
    IN  IF goto_Linternal THEN Linternal(t) ELSE getTypeInfo(t, sc)

\* Type::getInternalTypeInfo without toBasetype(): the switch is on the type itself
getInternalTypeInfo_NoBase(t0, sc) ==
    LET t == t0
        goto_Linternal ==
            CASE t.ty = "Tsarray" -> FALSE
              [] t.ty = "Tclass" -> ~isInterfaceDeclaration(t)
              [] t.ty = "Tarray" -> ~(next(t).ty # "Tclass")
              [] t.ty \in {"Tfunction", "Tdelegate", "Tpointer"} -> TRUE
              [] OTHER -> FALSE
    IN  IF goto_Linternal
        THEN Linternal(t)
        ELSE getTypeInfo(IF t.ty = "Tsarray" THEN arrayOf(next(t)) ELSE t, sc)

\* Type::getInternalTypeInfo passing no scope on to getTypeInfo
getInternalTypeInfo_NullScope(t0, sc) ==
    LET t == toBasetype(t0)
        goto_Linternal ==
            CASE t.ty = "Tsarray" -> FALSE
              [] t.ty = "Tclass" -> ~isInterfaceDeclaration(t)
              [] t.ty = "Tarray" -> ~(next(t).ty # "Tclass")
              [] t.ty \in {"Tfunction", "Tdelegate", "Tpointer"} -> TRUE
              [] OTHER -> FALSE
    IN  IF goto_Linternal
        THEN Linternal(t)
        ELSE getTypeInfo(IF t.ty = "Tsarray" THEN arrayOf(next(t)) ELSE t, 0)

\* Type::getInternalTypeInfo(sc) on the type object t0
getInternalTypeInfo(t0, sc) ==
    LET t == toBasetype(t0)
        goto_Linternal ==
            CASE t.ty = "Tsarray" -> FALSE
              [] t.ty = "Tclass" -> ~isInterfaceDeclaration(t)
              [] t.ty = "Tarray" -> ~(next(t).ty # "Tclass")
              [] t.ty \in {"Tfunction", "Tdelegate", "Tpointer"} -> TRUE
              [] OTHER -> FALSE
    IN  IF goto_Linternal
        THEN Linternal(t)
        ELSE getTypeInfo(IF t.ty = "Tsarray" THEN arrayOf(next(t)) ELSE t, sc)

TiCall(op, t, ret) == [op |-> op, t |-> t, ret |-> ret]
NoTiCall == TiCall("none", NoTypeObj, NoTid)

\* the type objects the front end passes: each type of this compilation, merged or not
TypeObjs == {[s EXCEPT !.copy = c] : s \in tyset, c \in 0..(NumCopies - 1)}

\* every Type object of the compilation: the types asked for, the types under them and
\* the dynamic arrays the static arrays are turned into, each as the merged object and
\* as the copies that were not merged
AllTypeObjs ==
    LET based == tyset \cup {toBasetype(t) : t \in tyset}
        arrays == {arrayOf(next(t)) : t \in {b \in based : b.ty = "Tsarray"}}
    IN  {[s EXCEPT !.copy = c] : s \in based \cup arrays, c \in 0..(NumCopies - 1)}

ApplyTi(e, op, t) ==
    /\ vtinfo' = e.vtinfo
    /\ tids' = e.tids
    /\ internalTI' = e.internalTI
    /\ members' = e.members
    /\ M' = e.M
    /\ builds' = e.builds
    /\ targets' = e.targets
    /\ fatal' = e.fatal
    /\ last' = e.last
    /\ lastTI' = TiCall(op, t, e.ret)
    /\ UNCHANGED <<threads, noruntime, runtime_failed, gIR_module, names, tyset>>

\* a call of Type::getTypeInfo by the front end or the code generator
Type_getTypeInfo(t, sc) ==
    /\ fatal = "none"
    /\ ApplyTi(getTypeInfo(t, sc), "getTypeInfo", t)

\* a call of Type::getInternalTypeInfo
Type_getInternalTypeInfo(t, sc) ==
    /\ fatal = "none"
    /\ ApplyTi(getInternalTypeInfo(t, sc), "getInternalTypeInfo", t)

\* the effect of a call of toObjFile on tid that left emit
Emitted(emit, tid) == TiEffect(vtinfo, emit.tids, internalTI, members, emit.reg, tid)

\* a call of TypeInfoDeclaration::toObjFile by the code generator
TypeInfoDeclaration_toObjFile(tid) ==
    /\ fatal = "none"
    /\ tid \in DOMAIN tids
    /\ ApplyTi(Emitted(toObjFile(tids, tid), tid), "toObjFile", tid.tinfo)

\* the code generator moves on to the next target module
SetModule(target) ==
    /\ fatal = "none"
    /\ gIR_module # target
    /\ gIR_module' = target
    /\ UNCHANGED <<threads, noruntime, M, runtime_failed, builds, targets, fatal, last, names>>
    /\ UNCHANGED tivars

(***************************************************************************)
(* Threads.  The operations above are calls of a host that has one thread  *)
(* of control.  A host that shares the registry between threads runs       *)
(* LLVM_D_InitRuntime and LLVM_D_GetRuntimeFunction statement by           *)
(* statement: a thread is at the line (pc) of runtime.cpp it executes next *)
(* in the operation op it was called for.  M is a plain static pointer:    *)
(* a load that races with another thread's store gives the stored module   *)
(* or the null pointer M held before, until the thread has loaded or       *)
(* stored a module itself (know).                                          *)
(***************************************************************************)
NumThreads == 2

Thread(pc, op, know) == [pc |-> pc, op |-> op, know |-> know]
OneThread == [th \in {1} |-> Thread("idle", "none", "none")]

\* the thread th is called for initRuntime or for fetchFunction: lines 61-64 of the latter
ThreadCall(th, op) ==
    /\ fatal = "none"
    /\ threads[th].pc = "idle"
    /\ IF op = "fetchFunction" /\ noruntime
       THEN /\ fatal' = PolicyViolation
            /\ last' = Call(op, gIR_module, CHOOSE n \in names : TRUE, PolicyViolation, NullId)
            /\ UNCHANGED threads
       ELSE /\ threads' = [threads EXCEPT ![th] =
                             Thread(IF op = "fetchFunction" THEN "L66" ELSE "L42", op, @.know)]
            /\ UNCHANGED <<fatal, last>>
    /\ UNCHANGED <<noruntime, M, runtime_failed, builds, targets, gIR_module, names>>
    /\ UNCHANGED tivars

\* if (!M) without the load of M: the thread always goes on to build
ThreadTestM_NoTest(th) ==
    /\ fatal = "none"
    /\ threads[th].pc \in {"L66", "L42"}
    /\ IF threads[th].pc = "L66" /\ runtime_failed
       THEN /\ fatal' = AssertRuntimeFailed
            /\ last' = Call("fetchFunction", gIR_module, CHOOSE n \in names : TRUE,
                             AssertRuntimeFailed, NullId)
            /\ UNCHANGED threads
       ELSE /\ threads' = [threads EXCEPT ![th].pc = IF @ = "L66" THEN "L42" ELSE "L43"]
            /\ UNCHANGED <<fatal, last>>
    /\ UNCHANGED <<noruntime, M, runtime_failed, builds, targets, gIR_module, names>>
    /\ UNCHANGED tivars

\* if (!M) at line 66 of LLVM_D_GetRuntimeFunction and at line 42 of LLVM_D_InitRuntime:
\* isNull is what the load of M gave
ThreadTestM(th) ==
    /\ fatal = "none"
    /\ threads[th].pc \in {"L66", "L42"}
    /\ \E isNull \in {M.inst = 0} \cup (IF threads[th].know = "none" THEN {TRUE} ELSE {}) :
         IF isNull
         THEN IF threads[th].pc = "L66" /\ runtime_failed
              THEN /\ fatal' = AssertRuntimeFailed
                   /\ last' = Call("fetchFunction", gIR_module, CHOOSE n \in names : TRUE,
                                    AssertRuntimeFailed, NullId)
                   /\ UNCHANGED threads
              ELSE /\ threads' = [threads EXCEPT ![th].pc = IF @ = "L66" THEN "L42" ELSE "L43"]
                   /\ UNCHANGED <<fatal, last>>
         ELSE /\ threads' = [threads EXCEPT ![th] =
                   IF @.op = "fetchFunction"
                   THEN Thread("L71", @.op, IF @.know = "none" THEN "loaded" ELSE @.know)
                   ELSE Thread("idle", "none", IF @.know = "none" THEN "loaded" ELSE @.know)]
              /\ last' = IF threads[th].op = "fetchFunction" THEN last
                         ELSE Call("initRuntime", 0, "", "true", NullId)
              /\ UNCHANGED fatal
    /\ UNCHANGED <<noruntime, M, runtime_failed, builds, targets, gIR_module, names>>
    /\ UNCHANGED tivars

\* LLVM_D_BuildRuntimeModule() at line 43, and the return of LLVM_D_InitRuntime
ThreadBuild(th) ==
    /\ fatal = "none"
    /\ threads[th].pc = "L43"
    /\ builds < MaxBuilds
    /\ M' = LLVM_D_BuildRuntimeModule(builds + 1)
    /\ builds' = builds + 1
    /\ threads' = [threads EXCEPT ![th] =
                     IF @.op = "fetchFunction" THEN Thread("L71", @.op, "stored")
                     ELSE Thread("idle", "none", "stored")]
    /\ last' = IF threads[th].op = "fetchFunction" THEN last
               ELSE Call("initRuntime", 0, "", "true", NullId)
    /\ UNCHANGED <<noruntime, runtime_failed, targets, gIR_module, fatal, names>>
    /\ UNCHANGED tivars

\* lines 71-85 of LLVM_D_GetRuntimeFunction, on the module M points to now
ThreadFetch(th, name) ==
    /\ fatal = "none"
    /\ threads[th].pc = "L71"
    /\ \E how \in FunctionNotFound :
         ApplyRt(FunctionFromRuntime(gIR_module, name, how, [M |-> M, builds |-> builds]),
                 "fetchFunction", gIR_module, name)
    /\ threads' = [threads EXCEPT ![th] = Thread("idle", "none", @.know)]
    /\ UNCHANGED <<noruntime, runtime_failed, gIR_module, names>>
    /\ UNCHANGED tivars

(***************************************************************************)
(* Specifications                                                          *)
(***************************************************************************)
RuntimeNames == {"_d_assert", "_d_newarraymT", "_d_toObject", "_aaLen", UnknownFunction,
                 mangle(Tid(Leaf("int"), 0, "TypeInfoDeclaration", 1))}

Start ==
    /\ noruntime \in BOOLEAN
    /\ M = NullModule
    /\ runtime_failed = FALSE
    /\ builds = 0
    /\ targets = [t \in Targets |-> {}]
    /\ gIR_module = 1
    /\ fatal = "none"
    /\ last = NoCall
    /\ tids = [x \in {} |-> Fresh]
    /\ internalTI = [k \in TY |-> NoTid]
    /\ members = [m \in FeModules |-> << >>]
    /\ lastTI = NoTiCall
    /\ threads = OneThread

\* the types one compilation asks for: one type, or a static and a dynamic array of
\* the same element
TypeSets == {{s} : s \in Shapes}
ArraySets == {{staticArrayOf(x), dynamicArrayOf(x)} : x \in ElemSyms}

\* a compilation of one of these sets of types: no type has a declaration yet
Types(sets) ==
    /\ tyset \in sets
    /\ vtinfo = [t \in AllTypeObjs |-> NoTid]

\* the names one compilation asks the registry for
NameSets == {{n} : n \in RuntimeNames}

Init == Start /\ names \in NameSets /\ Types(TypeSets \cup ArraySets)

RegistryCall ==
    \/ LLVM_D_InitRuntime
    \/ LLVM_D_FreeRuntime
    \/ \E target \in Targets, name \in names : LLVM_D_GetRuntimeFunction(target, name)
    \/ \E target \in Targets, name \in names : LLVM_D_GetRuntimeGlobal(target, name)
    \/ \E target \in Targets, name \in names, attrs \in UserAttrLists :
           DeclareInTarget(target, name, attrs)

TypeInfoCall ==
    \/ \E t \in TypeObjs, sc \in {0} \cup FeModules : Type_getTypeInfo(t, sc)
    \/ \E t \in TypeObjs, sc \in {0} \cup FeModules : Type_getInternalTypeInfo(t, sc)
    \/ \E tid \in DOMAIN tids : TypeInfoDeclaration_toObjFile(tid)
    \/ \E tid \in DOMAIN tids : DeclareInTarget(gIR_module, mangle(tid), NoAttrs)

Next == RegistryCall \/ TypeInfoCall \/ \E target \in Targets : SetModule(target)

Spec == Init /\ [][Next]_vars

\* the registry alone, driven by the code generator
InitRT == Start /\ names \in NameSets /\ Types({{}})
SpecRT == InitRT /\ [][RegistryCall]_vars

\* the registry in a session that never calls LLVM_D_FreeRuntime
RegistryCallNoFree ==
    \/ LLVM_D_InitRuntime
    \/ \E target \in Targets, name \in names : LLVM_D_GetRuntimeFunction(target, name)
    \/ \E target \in Targets, name \in names : LLVM_D_GetRuntimeGlobal(target, name)
    \/ \E target \in Targets, name \in names, attrs \in UserAttrLists :
           DeclareInTarget(target, name, attrs)
SpecNoFree == InitRT /\ [][RegistryCallNoFree]_vars

\* the typeinfo layer, generating into one target module
InitTI == Start /\ names = {} /\ Types(TypeSets)
SpecTI == InitTI /\ [][TypeInfoCall]_vars

\* the two canonicalising operations alone, on an array type and its element's other array
CanonCall ==
    \/ \E t \in TypeObjs, sc \in {0} \cup FeModules : Type_getTypeInfo(t, sc)
    \/ \E t \in TypeObjs, sc \in {0} \cup FeModules : Type_getInternalTypeInfo(t, sc)
InitCanon == Start /\ names = {} /\ Types(ArraySets)
SpecCanon == InitCanon /\ [][CanonCall]_vars

\* getInternalTypeInfo and getTypeInfo, called without a scope or from the first unit,
\* on two types of the kinds getInternalTypeInfo
\* tells apart: two types of one kind, one type of each of two kinds, and an interface
\* beside another interface or a type of each other kind
KindPairs == {<<"C", "D">>, <<"F", "G">>, <<"Dg", "Dh">>, <<"I", "J">>}
KindReps == {Leaf("C"), dynamicArrayOf("C"), pointerTo("int"), Leaf("F"), Leaf("Dg"),
             Leaf("I")}
KindSets == {{Leaf(p[1]), Leaf(p[2])} : p \in KindPairs}
            \cup {{dynamicArrayOf("C"), dynamicArrayOf("I")}, {pointerTo("int"), pointerTo("S")}}
            \cup ({{a, b} : a, b \in KindReps} \ {{a} : a \in KindReps})
CollapseCall ==
    \/ \E t \in TypeObjs, sc \in {0, 1} : Type_getTypeInfo(t, sc)
    \/ \E t \in TypeObjs, sc \in {0, 1} : Type_getInternalTypeInfo(t, sc)
InitCollapse == Start /\ names = {} /\ Types(KindSets)
SpecCollapse == InitCollapse /\ [][CollapseCall]_vars

\* getInternalTypeInfo and getTypeInfo on an enum or a typedef and the type under it
BaseSets == {{Leaf("E"), memtype(Leaf("E"))}, {Leaf("A"), memtype(Leaf("A"))}}
InitBase == Start /\ names = {} /\ Types(BaseSets)
SpecBase == InitBase /\ [][CanonCall]_vars

\* getInternalTypeInfo on a compilation that has a type of each of the five kinds that
\* have a slot, or types of the kinds that have none
SlotCall == \E t \in TypeObjs, sc \in {0, 1} : Type_getInternalTypeInfo(t, sc)
SlotSets == {KindReps \ {Leaf("I")},
             {Leaf("I"), Leaf("S"), Leaf("E"), dynamicArrayOf("int"), staticArrayOf("C")}}
InitSlots == Start /\ names = {} /\ Types(SlotSets)
SpecSlots == InitSlots /\ [][SlotCall]_vars

\* the registry asked for one routine of a group of the catalogue
NamesFrom(group) == Start /\ names \in {{n} : n \in group} /\ Types({{}})

\* the allocation routines
AllocNames == {"_d_allocmemoryT", "_d_newarrayT", "_d_newarrayiT", "_d_newarrayvT",
               "_d_newarraymT", "_d_newarraymiT", "_d_newarraymvT", "_d_allocclass"}
InitAlloc == NamesFrom(AllocNames)
SpecAlloc == InitAlloc /\ [][RegistryCall]_vars

\* the cast routines
CastNames == {"_d_toObject", "_d_interface_cast", "_d_dynamic_cast"}
InitCast == NamesFrom(CastNames)
SpecCast == InitCast /\ [][RegistryCall]_vars

\* the associative array routines
AANames == {"_aaLen", "_aaGet", "_aaIn", "_aaDel", "_aaValues", "_aaRehash", "_aaKeys",
            "_aaApply", "_aaApply2", "_aaEq"}
InitAA == NamesFrom(AANames)
SpecAA == InitAA /\ [][RegistryCall]_vars

\* the array initialisation, copy, comparison and string switch routines
ArrayInitNames == {"_d_array_init_" \o suffix :
                      suffix \in {"i16", "i32", "i64", "float", "double", "real",
                                  "cfloat", "cdouble", "creal", "pointer"}}
ArrayCopyNames == {"_d_array_init_mem", "_d_array_slice_copy"}
CompareNames == {"_adEq", "_adCmp", "_adCmpChar",
                 "_d_switch_string", "_d_switch_ustring", "_d_switch_dstring"}
InitArray == NamesFrom(ArrayInitNames \cup ArrayCopyNames \cup CompareNames)
SpecArray == InitArray /\ [][RegistryCall]_vars

\* the typeinfo layer in a session whose driver builds and frees the runtime module
LifeCall ==
    \/ TypeInfoCall
    \/ LLVM_D_InitRuntime
    \/ LLVM_D_FreeRuntime
LifeSets == {{Leaf("int")}, {dynamicArrayOf("int")}, {Leaf("S")}, {Leaf("C")}}
InitLife == Start /\ names = {} /\ Types(LifeSets)
SpecLife == InitLife /\ [][LifeCall]_vars

\* the registry and the typeinfo layer in one session that builds and frees the runtime
\* module, fetches a cast routine into the active module and asks for the declarations
\* of a class from the first unit
FreeCall ==
    \/ LLVM_D_InitRuntime
    \/ LLVM_D_FreeRuntime
    \/ \E name \in names : LLVM_D_GetRuntimeFunction(gIR_module, name)
    \/ \E t \in TypeObjs : Type_getTypeInfo(t, 1)
    \/ \E t \in TypeObjs : Type_getInternalTypeInfo(t, 1)
    \/ \E tid \in DOMAIN tids : TypeInfoDeclaration_toObjFile(tid)
    \/ \E tid \in DOMAIN tids : DeclareInTarget(gIR_module, mangle(tid), NoAttrs)
InitFree == Start /\ names = {"_d_toObject"} /\ Types({{Leaf("C")}})
SpecFree == InitFree /\ [][FreeCall]_vars

\* the emission of the declarations of one type into the target modules, the code
\* generator going from one module to the next
EmitCall ==
    \/ \E t \in TypeObjs, sc \in {0, 1} : Type_getTypeInfo(t, sc)
    \/ \E tid \in DOMAIN tids : TypeInfoDeclaration_toObjFile(tid)
    \/ \E tid \in DOMAIN tids : DeclareInTarget(gIR_module, mangle(tid), NoAttrs)
    \/ \E target \in Targets : SetModule(target)
InitEmit == Start /\ names = {} /\ Types({{Leaf("S")}, {Leaf("int")}, {staticArrayOf("int")}})
SpecEmit == InitEmit /\ [][EmitCall]_vars

\* the registry shared by the threads of a host, one thread or NumThreads of them, that
\* call initRuntime and fetchFunction and never freeRuntime
ThreadStep ==
    \/ \E th \in DOMAIN threads, op \in {"initRuntime", "fetchFunction"} : ThreadCall(th, op)
    \/ \E th \in DOMAIN threads : ThreadTestM(th)
    \/ \E th \in DOMAIN threads : ThreadBuild(th)
    \/ \E th \in DOMAIN threads, name \in names : ThreadFetch(th, name)
InitThreads ==
    /\ noruntime \in BOOLEAN
    /\ M = NullModule
    /\ runtime_failed = FALSE
    /\ builds = 0
    /\ targets = [t \in Targets |-> {}]
    /\ gIR_module = 1
    /\ fatal = "none"
    /\ last = NoCall
    /\ tids = [x \in {} |-> Fresh]
    /\ internalTI = [k \in TY |-> NoTid]
    /\ members = [m \in FeModules |-> << >>]
    /\ lastTI = NoTiCall
    /\ names \in {{"_d_assert"}, {UnknownFunction}}
    /\ Types({{}})
    /\ threads \in {[th \in 1..n |-> Thread("idle", "none", "none")] : n \in {1, NumThreads}}
SpecThreads == InitThreads /\ [][ThreadStep]_vars

(***************************************************************************)
(* Properties of the registry                                              *)
(***************************************************************************)

\* C1: with runtime calls allowed, a fetchFunction of a catalogued name returns the one
\* declaration of that name the target holds, two successive fetchFunction calls for the
\* same target and name return the same declaration, and no target ever holds two
\* symbols of one name.
C1_SingleDeclaration ==
    [][ /\ \A t \in Targets : \A d1, d2 \in targets'[t] : d1.name = d2.name => d1 = d2
        /\ (~noruntime /\ last'.op = "fetchFunction" /\ last'.outcome = "ok"
              /\ last'.name \in CatalogueNames)
           => /\ \E d \in targets'[last'.target] :
                    d.name = last'.name /\ d.kind = "fn" /\ d.id = last'.handle
              /\ (last.op = "fetchFunction" /\ last.outcome = "ok"
                    /\ last.target = last'.target /\ last.name = last'.name)
                 => last'.handle = last.handle ]_vars

\* C1 witness: a catalogued function was fetched into a target that did not declare it
C1_Witness ==
    /\ ~noruntime /\ last.op = "fetchFunction" /\ last.outcome = "ok"
    /\ last.name \in CatalogueNames
    /\ \E d \in targets[last.target] :
          d.name = last.name /\ d.id = last.handle /\ d.ty # UserFnTy

\* C2 as the spec states it: with the policy disabled every fetchFunction and every
\* fetchGlobal call ends in PolicyViolation and leaves the target module as it was.
C2_Original ==
    [][ (noruntime /\ last' # last /\ last'.op \in {"fetchFunction", "fetchGlobal"})
        => (last'.outcome = PolicyViolation /\ targets' = targets) ]_vars

\* C2 amended: with the policy disabled no fetch call changes a target module or builds
\* the runtime module; every fetchFunction call, and every fetchGlobal call for a name
\* the target does not declare as a global, ends in PolicyViolation; a fetchGlobal call
\* for a global the target declares returns that global.
C2_PolicyGate ==
    [][ (noruntime /\ last' # last /\ last'.op \in {"fetchFunction", "fetchGlobal"})
        => /\ targets' = targets /\ M' = M
           /\ LET gv == getNamedGlobal(targets[last'.target], last'.name)
              IN  IF last'.op = "fetchGlobal" /\ gv # NoDecl
                  THEN last'.outcome = "ok" /\ last'.handle = gv.id /\ fatal' = "none"
                  ELSE last'.outcome = PolicyViolation /\ fatal' = PolicyViolation
                       /\ last'.handle = NullId ]_vars

\* C2 witness: fetchFunction died of the policy on a target that declares the name
C2_Witness ==
    /\ noruntime /\ last.op = "fetchFunction" /\ fatal = PolicyViolation
    /\ getFunction(targets[last.target], last.name) # NoDecl

\* C3 as the spec states it: fetchFunction looks the name up in the target first, so a
\* call on a target that declares the name returns that declaration, raises no
\* PolicyViolation and does not build the runtime module.
C3_Original ==
    [][ (last' # last /\ last'.op = "fetchFunction"
           /\ getFunction(targets[last'.target], last'.name) # NoDecl)
        => /\ last'.outcome = "ok"
           /\ last'.handle = getFunction(targets[last'.target], last'.name).id
           /\ M' = M ]_vars

\* C3 amended: fetchFunction tests the policy first, then builds the runtime module if
\* it is not built, and only then looks the name up in the target: on a target that
\* declares the name the call ends in PolicyViolation when the policy is disabled, and
\* otherwise leaves the runtime module built and returns the existing declaration.
C3_Order ==
    [][ (last' # last /\ last'.op = "fetchFunction"
           /\ getFunction(targets[last'.target], last'.name) # NoDecl)
        => IF noruntime
           THEN last'.outcome = PolicyViolation /\ fatal' = PolicyViolation /\ M' = M
           ELSE /\ last'.outcome = "ok"
                /\ last'.handle = getFunction(targets[last'.target], last'.name).id
                /\ M'.inst # 0
                /\ (M.inst = 0 => builds' = builds + 1) ]_vars

\* C3 witness: a fetchFunction that found the name in the target built the runtime module
C3_Witness ==
    /\ ~noruntime /\ last.op = "fetchFunction" /\ last.outcome = "ok"
    /\ \E d \in targets[last.target] :
          d.name = last.name /\ d.id = last.handle /\ d.ty = UserFnTy
    /\ M.inst # 0 /\ last.name \notin CatalogueNames

\* C4: a fetchFunction or fetchGlobal that succeeds on a target holding a declaration of
\* the name returns that declaration and leaves every target module as it was.
C4_ExistingUntouched ==
    [][ (last' # last /\ last'.op \in {"fetchFunction", "fetchGlobal"} /\ last'.outcome = "ok"
           /\ getNamedValue(targets[last'.target], last'.name) # NoDecl)
        => /\ last'.handle = getNamedValue(targets[last'.target], last'.name).id
           /\ targets' = targets ]_vars

\* C4 witness: fetchFunction returned a declaration whose attributes are not the runtime's
C4_Witness ==
    /\ last.op = "fetchFunction" /\ last.outcome = "ok" /\ last.name = "_d_toObject"
    /\ \E d \in targets[last.target] :
          d.name = last.name /\ d.id = last.handle /\ d.attrs # Attr_ReadOnly_NoUnwind

\* C5: the declaration fetchFunction inserts into a target that did not declare the name
\* has the function type and the attribute list of the runtime module's declaration and
\* is an object of the target, not the runtime module's.
C5_InsertedCopy ==
    [][ (last' # last /\ last'.op = "fetchFunction" /\ last'.outcome = "ok"
           /\ getNamedValue(targets[last'.target], last'.name) = NoDecl)
        => LET d == getFunction(targets'[last'.target], last'.name)
               r == getFunction(M'.decls, last'.name)
           IN  /\ d # NoDecl /\ r # NoDecl
               /\ d.id = last'.handle
               /\ d.ty = r.ty /\ d.attrs = r.attrs
               /\ d.id # r.id /\ d.id.owner = last'.target
               /\ \A x \in M'.decls : x.id # d.id
               /\ targets'[last'.target] = targets[last'.target] \cup {d} ]_vars

\* C5 witness: _d_newarraymT was inserted with its noalias return and nocapture parameter
C5_Witness ==
    /\ last.op = "fetchFunction" /\ last.outcome = "ok" /\ last.name = "_d_newarraymT"
    /\ \E d \in targets[last.target] :
          d.name = last.name /\ d.id = last.handle /\ d.attrs = Attr_NoAlias_3_NoCapture

\* C6 as the spec states it: with runtime calls allowed, fetchGlobal of a name the target
\* does not declare leaves the runtime module built and returns a new global of that
\* name in the target, the only one of that name.
C6_GlobalCreated ==
    [][ (~noruntime /\ last' # last /\ last'.op = "fetchGlobal"
           /\ getNamedValue(targets[last'.target], last'.name) = NoDecl)
        => /\ last'.outcome = "ok"
           /\ M'.inst # 0
           /\ \E d \in targets'[last'.target] :
                 d.name = last'.name /\ d.kind = "gv" /\ d.id = last'.handle ]_vars

\* C7: with runtime calls allowed, a fetch of a name that neither the target nor the
\* runtime module declares ends the compilation with the symbol-missing diagnostic,
\* returns no handle and inserts nothing into any target.
C7_SymbolMissing ==
    [][ (~noruntime /\ last' # last /\ last'.op \in {"fetchFunction", "fetchGlobal"}
           /\ getNamedValue(targets[last'.target], last'.name) = NoDecl
           /\ getNamedValue(M'.decls, last'.name) = NoDecl)
        => /\ last'.outcome \in RuntimeSymbolMissing
           /\ fatal' = last'.outcome
           /\ last'.handle = NullId
           /\ targets' = targets ]_vars

\* C7 witness: fetchFunction of a function the catalogue lacks ended the compilation
C7_Witness ==
    /\ last.op = "fetchFunction" /\ last.name = UnknownFunction
    /\ fatal \in FunctionNotFound /\ last.handle = NullId
    /\ targets[last.target] = {}

\* C8: in a session without freeRuntime the runtime module is constructed at most once:
\* M is either null or the first module built, and initRuntime always reports success
\* and leaves that module in place.
C8_BuiltOnce ==
    /\ builds <= 1
    /\ M.inst = builds
    /\ last.op = "initRuntime" => (last.outcome = "true" /\ M.inst = 1)

\* C8 witness: initRuntime ran after a fetchFunction had built the module and filled a target
C8_Witness ==
    /\ builds = 1 /\ M.inst = 1 /\ M.decls # {}
    /\ last.op = "initRuntime"
    /\ \E t \in Targets : \E d \in targets[t] : d.kind = "fn" /\ d.ty # UserFnTy

(***************************************************************************)
(* Properties of the typeinfo layer                                        *)
(***************************************************************************)

\* C9: getTypeInfo returns, for every type object, the declaration held by the vtinfo of
\* the merged type, so objects that merge to one type get one declaration; a vtinfo that
\* is set is never set again, and no two exact declarations describe the same type.
C9_SingleDescriptor ==
    [][ /\ \A t \in DOMAIN vtinfo : vtinfo[t] # NoTid => vtinfo'[t] = vtinfo[t]
        /\ \A x, y \in DOMAIN tids' :
              (x.internal = 0 /\ y.internal = 0 /\ merge(x.tinfo) = merge(y.tinfo)) => x = y
        /\ (lastTI'.op = "getTypeInfo" /\ lastTI'.ret # NoTid)
           => /\ lastTI'.ret = vtinfo'[merge(lastTI'.t)]
              /\ lastTI'.ret \in DOMAIN tids'
              /\ (lastTI.op = "getTypeInfo" /\ lastTI.ret # NoTid
                    /\ merge(lastTI.t) = merge(lastTI'.t))
                 => lastTI'.ret = lastTI.ret ]_vars

\* C9 witness: a type object that is not the merged one got the declaration the merged
\* type had been given from a semantic scope
C9_Witness ==
    /\ lastTI.op = "getTypeInfo" /\ lastTI.t.copy # 0 /\ lastTI.ret # NoTid
    /\ lastTI.ret.tinfo = merge(lastTI.t)
    /\ \E m \in FeModules : members[m] = <<lastTI.ret>>

\* C10 as the spec states it: for every element type, getInternalTypeInfo of the static
\* array and of the dynamic array of that element return the same declaration.
C10_Original ==
    [][ (/\ lastTI.op = "getInternalTypeInfo" /\ lastTI.ret # NoTid
         /\ lastTI'.op = "getInternalTypeInfo" /\ lastTI'.ret # NoTid
         /\ lastTI.t.ty \in {"Tsarray", "Tarray"} /\ lastTI'.t.ty \in {"Tsarray", "Tarray"}
         /\ lastTI.t.next = lastTI'.t.next)
        => lastTI'.ret = lastTI.ret ]_vars

\* C10 amended: for every element type that is not a class or an interface,
\* getInternalTypeInfo of the static array and of the dynamic array of that element both
\* return the exact declaration of the dynamic array, whatever the order of the calls;
\* for a class or interface element the static array gets the exact declaration of the
\* dynamic array and the dynamic array gets the placeholder of internalTI[Tarray].
C10_ArrayCollapse ==
    [][ /\ \A t \in DOMAIN vtinfo : vtinfo[t] # NoTid => vtinfo'[t] = vtinfo[t]
        /\ internalTI["Tarray"] # NoTid => internalTI'["Tarray"] = internalTI["Tarray"]
        /\ (/\ lastTI'.op = "getInternalTypeInfo" /\ lastTI'.ret # NoTid
            /\ lastTI'.t.ty \in {"Tsarray", "Tarray"})
           => IF LeafTy(lastTI'.t.next) # "Tclass" \/ lastTI'.t.ty = "Tsarray"
              THEN /\ lastTI'.ret = vtinfo'[dynamicArrayOf(lastTI'.t.next)]
                   /\ lastTI'.ret.internal = 0
                   /\ lastTI'.ret.tinfo = dynamicArrayOf(lastTI'.t.next)
              ELSE /\ lastTI'.ret = internalTI'["Tarray"]
                   /\ lastTI'.ret.internal = 1 ]_vars

\* C10 witness: the static array of a struct got the exact declaration of the dynamic
\* array after the dynamic array had been asked for from a semantic scope
C10_Witness ==
    /\ lastTI.op = "getInternalTypeInfo" /\ lastTI.t.ty = "Tsarray"
    /\ lastTI.t.next = "S"
    /\ lastTI.ret # NoTid /\ lastTI.ret = vtinfo[dynamicArrayOf("S")]
    /\ \E m \in FeModules : members[m] = <<lastTI.ret>>

\* C11: getInternalTypeInfo of a non-interface class, an array of classes, a pointer, a
\* function or a delegate returns the declaration held in the internalTI slot of that
\* kind, whatever the type; a slot once filled keeps its declaration, so two types of
\* one kind get the same declaration, and the slots of two kinds never hold the same one.
C11_SharedPlaceholder ==
    [][ /\ \A k \in TY : internalTI[k] # NoTid => internalTI'[k] = internalTI[k]
        /\ \A k1 \in TY :
              internalTI'[k1] # NoTid
              => \A k2 \in TY \ {k1} : internalTI'[k1] # internalTI'[k2]
        /\ LET b == toBasetype(lastTI'.t)
               collapsing == \/ b.ty = "Tclass" /\ ~isInterfaceDeclaration(b)
                             \/ b.ty = "Tarray" /\ next(b).ty = "Tclass"
                             \/ b.ty \in {"Tpointer", "Tfunction", "Tdelegate"}
           IN  (lastTI'.op = "getInternalTypeInfo" /\ collapsing)
               => /\ lastTI'.ret # NoTid
                  /\ lastTI'.ret = internalTI'[b.ty]
                  /\ lastTI'.ret.internal = 1
                  /\ lastTI'.ret \in DOMAIN tids'
                  /\ \A u \in DOMAIN vtinfo' : vtinfo'[u] # lastTI'.ret
                  /\ (lastTI.op = "getInternalTypeInfo" /\ toBasetype(lastTI.t).ty = b.ty
                        /\ lastTI.ret.internal = 1)
                     => lastTI'.ret = lastTI.ret ]_vars

\* C11 witness: the function type G got the declaration that had been made for F
C11_Witness ==
    /\ lastTI.op = "getInternalTypeInfo" /\ lastTI.t.sym = "G"
    /\ lastTI.ret.internal = 1 /\ lastTI.ret.tinfo = Leaf("F")
    /\ internalTI["Tfunction"] = lastTI.ret

\* C12: getInternalTypeInfo of an interface returns the exact declaration of that
\* interface, the one its vtinfo holds and getTypeInfo returns; it is in no slot of
\* internalTI and is the declaration of no other type.
C12_InterfaceExact ==
    [][ LET b == toBasetype(lastTI'.t)
        IN  (/\ lastTI'.op = "getInternalTypeInfo" /\ lastTI'.ret # NoTid
             /\ b.ty = "Tclass" /\ isInterfaceDeclaration(b))
            => /\ lastTI'.ret = vtinfo'[merge(b)]
               /\ lastTI'.ret.internal = 0
               /\ lastTI'.ret.tinfo = merge(b)
               /\ \A k \in TY : internalTI'[k] # lastTI'.ret
               /\ \A u \in DOMAIN vtinfo' : u # merge(b) => vtinfo'[u] # lastTI'.ret
               /\ (lastTI.op = "getTypeInfo" /\ lastTI.ret # NoTid
                     /\ merge(lastTI.t) = merge(b))
                  => lastTI'.ret = lastTI.ret ]_vars

\* C12 witness: an interface got its exact declaration while the class slot was filled
C12_Witness ==
    /\ lastTI.op = "getInternalTypeInfo" /\ lastTI.t.sym = "I" /\ lastTI.ret # NoTid
    /\ lastTI.ret.cls = "TypeInfoInterfaceDeclaration"
    /\ internalTI["Tclass"] # NoTid

\* C13: toObjFile asks the registry for the global only on the first call on a
\* declaration: a declaration that is touched keeps its latch and its value, a toObjFile
\* call on a touched declaration changes nothing and raises nothing, and every
\* fetchGlobal the typeinfo layer makes is for a declaration that was not touched.
C13_EmitOnce ==
    [][ /\ \A x \in DOMAIN tids :
              tids[x].llvmTouched => (x \in DOMAIN tids' /\ tids'[x] = tids[x])
        /\ (lastTI' # lastTI /\ lastTI'.op = "toObjFile" /\ tids[lastTI'.ret].llvmTouched)
           => UNCHANGED <<M, builds, targets, fatal, last, tids, vtinfo, internalTI, members>>
        /\ (last' # last /\ last'.op = "fetchGlobal")
           => \E x \in DOMAIN tids' :
                 /\ mangle(x) = last'.name
                 /\ tids'[x].llvmTouched
                 /\ x \in DOMAIN tids => ~tids[x].llvmTouched ]_vars

\* C13 witness: toObjFile ran again on a declaration touched earlier, after the registry
\* had been asked for another declaration's global, and left that last fetch in place
C13_Witness ==
    /\ lastTI.op = "toObjFile" /\ lastTI.ret \in DOMAIN tids
    /\ tids[lastTI.ret].llvmTouched /\ tids[lastTI.ret].llvmValue # NullId
    /\ last.op = "fetchGlobal" /\ last.name # mangle(lastTI.ret)
    /\ fatal = "none"

\* C14 as the spec states it: with runtime calls allowed, the first toObjFile on a
\* declaration whose mangled name the active target module does not declare ends without
\* a fatal diagnostic and leaves llvmValue a global of that name in the active module.
C14_EmissionResolves ==
    [][ (/\ ~noruntime /\ lastTI' # lastTI /\ lastTI'.op = "toObjFile"
         /\ ~tids[lastTI'.ret].llvmTouched
         /\ getNamedValue(targets[gIR_module], mangle(lastTI'.ret)) = NoDecl)
        => /\ fatal' = "none"
           /\ \E d \in targets'[gIR_module] :
                 /\ d.name = mangle(lastTI'.ret) /\ d.kind = "gv"
                 /\ d.id = tids'[lastTI'.ret].llvmValue ]_vars

\* C15 as the spec states it: the exact declaration of a builtin type (a basic type or a
\* dynamic array of one) is in no module's member list, and with runtime calls allowed
\* its resolution through the registry gives it the global of its mangled name.
C15_BuiltinResolved ==
    \A x \in DOMAIN tids :
       (x.internal = 0 /\ builtinTypeInfo(x.tinfo))
       => /\ \A m \in FeModules : \A i \in 1..Len(members[m]) : members[m][i] # x
          /\ (~noruntime /\ tids[x].llvmTouched)
             => /\ fatal = "none"
                /\ \E d \in targets[gIR_module] :
                      d.name = mangle(x) /\ d.kind = "gv" /\ d.id = tids[x].llvmValue

\* C16: a declaration is in at most one member list and at most once, only in the list
\* of a module that is its own importedFrom root, and only if it is the exact declaration
\* of a type that is not builtin; a getTypeInfo on a type whose vtinfo is set returns
\* that declaration and appends nothing, and the getTypeInfo that sets the vtinfo of such
\* a type appends the new declaration to one root's list or, in the object generation
\* pass, emits it and appends nothing.
C16_EnqueuedOnce ==
    [][ /\ \A m1, m2 \in FeModules :
              \A i \in 1..Len(members'[m1]) : \A j \in 1..Len(members'[m2]) :
                 members'[m1][i] = members'[m2][j] => (m1 = m2 /\ i = j)
        /\ \A m \in FeModules :
              /\ importedFrom(m) # m => members'[m] = << >>
              /\ \A i \in 1..Len(members'[m]) :
                    LET x == members'[m][i]
                    IN  x.internal = 0 /\ ~builtinTypeInfo(x.tinfo) /\ vtinfo'[x.tinfo] = x
        /\ LET t == merge(lastTI'.t)
           IN  lastTI'.op = "getTypeInfo"
               => /\ vtinfo[t] # NoTid
                     => (members' = members /\ lastTI'.ret = vtinfo[t])
                  /\ (vtinfo[t] = NoTid /\ vtinfo'[t] # NoTid /\ ~builtinTypeInfo(t))
                     => \/ \E m \in FeModules :
                              /\ importedFrom(m) = m
                              /\ members' = [members EXCEPT ![m] = Append(@, vtinfo'[t])]
                        \/ members' = members /\ tids'[vtinfo'[t]].llvmTouched ]_vars

\* C16 witness: a declaration appended to the second unit's list was later emitted and
\* then asked for again, and it is still the only entry of any list
C16_Witness ==
    /\ lastTI.op = "getTypeInfo" /\ lastTI.ret # NoTid
    /\ members[2] = <<lastTI.ret>> /\ members[1] = << >>
    /\ tids[lastTI.ret].llvmTouched /\ fatal = "none"

\* C17: a type's declaration only moves forward, from none (0) to assigned, builtin (1)
\* or custom (2), to emitted (3): a vtinfo that is set keeps its declaration, a
\* declaration object stays and its llvmTouched latch stays set, through every typeinfo
\* call and through LLVM_D_FreeRuntime and a later LLVM_D_InitRuntime.
C17_ForwardOnly ==
    [][ /\ \A x \in DOMAIN tids :
              x \in DOMAIN tids' /\ (tids[x].llvmTouched => tids'[x].llvmTouched)
        /\ \A t \in DOMAIN vtinfo :
              \* a type in state 0 may stay or move to any later state
              vtinfo[t] # NoTid =>
                  LET before == IF tids[vtinfo[t]].llvmTouched THEN 3
                                ELSE IF builtinTypeInfo(t) THEN 1 ELSE 2
                      after == IF vtinfo'[t] = NoTid THEN 0
                               ELSE IF tids'[vtinfo'[t]].llvmTouched THEN 3
                               ELSE IF builtinTypeInfo(t) THEN 1 ELSE 2
                  IN  /\ vtinfo'[t] = vtinfo[t]
                      /\ after = before \/ (before # 3 /\ after = 3)
      ]_vars

\* C17 witness: the runtime module was built and freed after a declaration was emitted,
\* and the declaration is still emitted
C17_Witness ==
    /\ last.op = "freeRuntime" /\ M.inst = 0 /\ builds = 1 /\ fatal = "none"
    /\ \E t \in DOMAIN vtinfo :
          vtinfo[t] # NoTid /\ tids[vtinfo[t]].llvmTouched
          /\ tids[vtinfo[t]].llvmValue # NullId

\* C18 as the spec states it: the llvmTouched latch of the exact declaration of a builtin
\* type is never set, whatever getTypeInfo, getInternalTypeInfo and toObjFile calls are
\* made.
C18_Original ==
    \A x \in DOMAIN tids :
       (x.internal = 0 /\ builtinTypeInfo(x.tinfo)) => ~tids[x].llvmTouched

\* C18 amended: no getTypeInfo or getInternalTypeInfo call sets the llvmTouched latch of
\* the exact declaration of a builtin type; a toObjFile call on such a declaration does
\* set it.
C18_BuiltinNotEmittedByRequest ==
    [][ /\ lastTI'.op \in {"getTypeInfo", "getInternalTypeInfo"}
           => \A x \in DOMAIN tids' :
                 (x.internal = 0 /\ builtinTypeInfo(x.tinfo))
                 => tids'[x].llvmTouched = (x \in DOMAIN tids /\ tids[x].llvmTouched)
        /\ (lastTI'.op = "toObjFile" /\ builtinTypeInfo(lastTI'.t))
           => tids'[lastTI'.ret].llvmTouched ]_vars

\* C18 witness: the object generation pass asked for the declaration of an array of a
\* basic type, which was made and not emitted
C18_Witness ==
    /\ lastTI.op = "getTypeInfo" /\ lastTI.t.ty = "Tarray" /\ builtinTypeInfo(lastTI.t)
    /\ lastTI.ret # NoTid /\ ~tids[lastTI.ret].llvmTouched
    /\ \A m \in FeModules : members[m] = << >>

\* C19 as the spec states it: getTypeInfo on a type whose kind has no generator of its
\* own among the twelve ends in the fatal DescriptorKindUnsupported outcome and returns
\* no declaration.
C19_Original ==
    [][ LET t == merge(lastTI'.t)
        IN  (/\ lastTI' # lastTI /\ lastTI'.op = "getTypeInfo" /\ vtinfo[t] = NoTid
             /\ t.ty \notin {"Ttypedef", "Tpointer", "Tarray", "Tsarray", "Taarray", "Tstruct",
                             "Tclass", "Tenum", "Tfunction", "Tdelegate", "Ttuple"})
            => (fatal' = "DescriptorKindUnsupported" /\ lastTI'.ret = NoTid) ]_vars

\* C19 amended: getTypeInfo on a type whose kind has no generator of its own (a basic
\* type) makes the declaration with the base generator: it returns a declaration of the
\* generic class TypeInfoDeclaration for that type and ends in no fatal outcome.
C19_GenericDescriptor ==
    [][ LET t == merge(lastTI'.t)
        IN  (/\ lastTI'.op = "getTypeInfo"
             /\ t.ty \notin {"Ttypedef", "Tpointer", "Tarray", "Tsarray", "Taarray", "Tstruct",
                             "Tclass", "Tenum", "Tfunction", "Tdelegate", "Ttuple"})
            => /\ lastTI'.ret # NoTid
               /\ lastTI'.ret = vtinfo'[t]
               /\ lastTI'.ret.cls = "TypeInfoDeclaration"
               /\ lastTI'.ret.tinfo = t
               /\ lastTI'.ret.internal = 0
               /\ fatal' = "none" ]_vars

\* C19 witness: the basic type char got a declaration of the generic class
C19_Witness ==
    /\ lastTI.op = "getTypeInfo" /\ lastTI.t.ty = "Tchar"
    /\ lastTI.ret # NoTid /\ lastTI.ret.cls = "TypeInfoDeclaration"
    /\ vtinfo[Leaf("char")] = lastTI.ret /\ fatal = "none"

\* C20: once the runtime module is built, no LLVM_D_GetRuntimeFunction or
\* LLVM_D_GetRuntimeGlobal call changes it: M is the same module with the same
\* declarations, types and attributes after the call, whatever target is filled.
C20_RuntimeReadOnly ==
    [][ (M.inst # 0 /\ last' # last /\ last'.op \in {"fetchFunction", "fetchGlobal"})
        => (M' = M /\ builds' = builds) ]_vars

\* C20 witness: with the runtime module built, a function was fetched into the second
\* target after the first target had been given the same function
C20_Witness ==
    /\ M.inst # 0 /\ M.decls = CreateAll
    /\ last.op = "fetchFunction" /\ last.outcome = "ok" /\ last.target = 2
    /\ \E d1 \in targets[1], d2 \in targets[2] :
          /\ d1.name = last.name /\ d2.name = last.name /\ d2.id = last.handle
          /\ d1.ty # UserFnTy /\ d2.ty # UserFnTy /\ d1.id # d2.id

\* C21: a getTypeInfo call that makes the declaration of a type that is not builtin does
\* exactly one of two things: from a scope it appends the new declaration to the member
\* list of the scope's importedFrom module and neither runs toObjFile on it nor calls the
\* registry; from the null scope it runs toObjFile on it (the latch is set and the
\* registry is asked for its mangled name in the active module) and changes no member
\* list.  A call on a type whose vtinfo is set changes no list, no declaration and
\* makes no registry call.
C21_CreationDispatch ==
    [][ \A t \in TypeObjs, sc \in {0} \cup FeModules :
           (Type_getTypeInfo(t, sc) /\ ~builtinTypeInfo(merge(t)))
           => IF vtinfo[merge(t)] # NoTid
              THEN members' = members /\ tids' = tids /\ last' = last
              ELSE LET tid == vtinfo'[merge(t)]
                   IN  /\ tid # NoTid /\ tid \notin DOMAIN tids /\ tid \in DOMAIN tids'
                       /\ sc # 0
                          => /\ members' = [members EXCEPT
                                              ![importedFrom(sc)] = Append(@, tid)]
                             /\ ~tids'[tid].llvmTouched
                             /\ last' = last /\ fatal' = "none"
                       /\ sc = 0
                          => /\ members' = members
                             /\ tids'[tid].llvmTouched
                             /\ last' = Call("fetchGlobal", gIR_module, mangle(tid),
                                             last'.outcome, tids'[tid].llvmValue)
      ]_vars

\* C21 witness: the declaration of a struct was made in the object generation pass: it
\* is touched, the registry was asked for it, and it is in no member list
C21_Witness ==
    /\ lastTI.op = "getTypeInfo" /\ lastTI.t.sym = "S" /\ lastTI.t.ty = "Tstruct"
    /\ vtinfo[Leaf("S")] # NoTid /\ tids[vtinfo[Leaf("S")]].llvmTouched
    /\ last.op = "fetchGlobal" /\ last.name = mangle(vtinfo[Leaf("S")])
    /\ \A m \in FeModules : members[m] = << >>

\* C22: getInternalTypeInfo of an enum or a typedef returns the declaration
\* getInternalTypeInfo of the type under it returns (the one in the slot of internalTI
\* of that kind, or the exact declaration of that type), so a call on the enum or
\* typedef and a call on the type under it, one after the other, return the same
\* declaration; it is never the declaration getTypeInfo makes for the enum or typedef.
C22_BaseReduced ==
    [][ LET t == lastTI'.t
            b == toBasetype(t)
            collapsing == \/ b.ty = "Tclass" /\ ~isInterfaceDeclaration(b)
                          \/ b.ty = "Tarray" /\ next(b).ty = "Tclass"
                          \/ b.ty \in {"Tpointer", "Tfunction", "Tdelegate"}
        IN  (lastTI'.op = "getInternalTypeInfo" /\ lastTI' # lastTI
               /\ (t.ty \in {"Tenum", "Ttypedef"} \/ lastTI.t.ty \in {"Tenum", "Ttypedef"}))
            => /\ t.ty \in {"Tenum", "Ttypedef"}
                  => /\ lastTI'.ret # NoTid
                     /\ lastTI'.ret = IF collapsing THEN internalTI'[b.ty]
                                      ELSE vtinfo'[merge(b)]
                     /\ lastTI'.ret # vtinfo'[merge(t)]
                     /\ lastTI'.ret.cls \notin {"TypeInfoEnumDeclaration",
                                                "TypeInfoTypedefDeclaration"}
                     /\ lastTI'.ret.tinfo.ty = b.ty
               /\ (lastTI.op = "getInternalTypeInfo"
                     /\ merge(toBasetype(lastTI.t)) = merge(b))
                  => lastTI'.ret = lastTI.ret
      ]_vars

\* C22 witness: the enum E, whose own enum declaration exists, got the exact
\* declaration of int
C22_Witness ==
    /\ lastTI.op = "getInternalTypeInfo" /\ lastTI.t.sym = "E"
    /\ vtinfo[Leaf("E")] # NoTid /\ vtinfo[Leaf("E")].cls = "TypeInfoEnumDeclaration"
    /\ lastTI.ret = vtinfo[Leaf("int")] /\ lastTI.ret # NoTid
    /\ lastTI.ret.tinfo = Leaf("int")

\* C23: for a type whose base type is basic, a struct, an associative array, a tuple, a
\* dynamic array of an element that is not a class, or an interface, a
\* getInternalTypeInfo call from a scope leaves what getTypeInfo of the base type from
\* that scope leaves, in vtinfo, the declarations, the member lists and the registry,
\* returns what it returns, and leaves internalTI as it was.
C23_FallsThrough ==
    [][ \A t \in TypeObjs, sc \in {0} \cup FeModules :
           LET b == toBasetype(t)
               plain == \/ b.ty \in {"Tint32", "Tchar", "Tstruct", "Taarray", "Ttuple"}
                        \/ b.ty = "Tarray" /\ next(b).ty # "Tclass"
                        \/ b.ty = "Tclass" /\ isInterfaceDeclaration(b)
           IN  (plain /\ Type_getInternalTypeInfo(t, sc))
               => LET e == getTypeInfo(b, sc)
                  IN  /\ lastTI'.ret = e.ret
                      /\ vtinfo' = e.vtinfo /\ tids' = e.tids /\ members' = e.members
                      /\ M' = e.M /\ builds' = e.builds /\ targets' = e.targets
                      /\ fatal' = e.fatal /\ last' = e.last
                      /\ internalTI' = internalTI
      ]_vars

\* C23 witness: getInternalTypeInfo of a struct from a scope of the second unit made the
\* struct's exact declaration and listed it there, and no slot of internalTI is filled
C23_Witness ==
    /\ lastTI.op = "getInternalTypeInfo" /\ lastTI.t.ty = "Tstruct"
    /\ lastTI.ret # NoTid /\ lastTI.ret = vtinfo[merge(lastTI.t)]
    /\ lastTI.ret.cls = "TypeInfoStructDeclaration"
    /\ members[2] = <<lastTI.ret>>
    /\ \A k \in TY : internalTI[k] = NoTid

\* C24: a slot of internalTI that is filled keeps its declaration; a slot is filled only
\* by a getInternalTypeInfo call on a type of the slot's kind, and every such call on a
\* class that is no interface, a dynamic array of classes, a pointer, a function or a
\* delegate leaves the slot filled; only the slots of these five kinds are ever filled,
\* each with a declaration of a type of that kind; the declarations made with the
\* internal flag are the ones in the slots, so there are never more than five.
C24_SlotsFilledOnce ==
    [][ LET b == toBasetype(lastTI'.t)
            internals == {x \in DOMAIN tids' : x.internal = 1}
        IN  /\ \A k \in TY :
                  /\ internalTI[k] # NoTid => internalTI'[k] = internalTI[k]
                  /\ internalTI'[k] # internalTI[k]
                     => lastTI'.op = "getInternalTypeInfo" /\ b.ty = k
                  /\ internalTI'[k] # NoTid
                     => /\ k \in {"Tclass", "Tarray", "Tpointer", "Tfunction", "Tdelegate"}
                        /\ internalTI'[k].tinfo.ty = k
                        /\ k = "Tclass" => ~isInterfaceDeclaration(internalTI'[k].tinfo)
                        /\ k = "Tarray" => next(internalTI'[k].tinfo).ty = "Tclass"
            /\ (/\ lastTI'.op = "getInternalTypeInfo" /\ lastTI' # lastTI
                /\ \/ b.ty = "Tclass" /\ ~isInterfaceDeclaration(b)
                   \/ b.ty = "Tarray" /\ next(b).ty = "Tclass"
                   \/ b.ty \in {"Tpointer", "Tfunction", "Tdelegate"})
               => internalTI'[b.ty] # NoTid
            /\ internals = {internalTI'[k] : k \in TY} \ {NoTid}
            /\ Cardinality(internals) <= 5
      ]_vars

\* C24 witness: the five slots are filled, by five declarations, and the last call got
\* the declaration another type object of its kind had put in the slot
C24_Witness ==
    /\ \A k \in {"Tclass", "Tarray", "Tpointer", "Tfunction", "Tdelegate"} :
          internalTI[k] # NoTid
    /\ Cardinality({x \in DOMAIN tids : x.internal = 1}) = 5
    /\ lastTI.op = "getInternalTypeInfo" /\ lastTI.ret.internal = 1
    /\ lastTI.ret.tinfo # lastTI.t

\* C25: builtinTypeInfo is true of the basic types and of the dynamic arrays of a basic
\* element and false of every other type; the getTypeInfo call that makes a type's
\* declaration leaves it unlisted and untouched exactly when the type is one of those.
C25_BuiltinQuery ==
    [][ /\ \A t \in Shapes :
              builtinTypeInfo(t)
              <=> \/ t.ty \in {"Tint32", "Tchar"}
                  \/ t.ty = "Tarray" /\ t.next \in {"int", "char"}
        /\ LET t == merge(lastTI'.t)
               basic == \/ t.ty \in {"Tint32", "Tchar"}
                        \/ t.ty = "Tarray" /\ t.next \in {"int", "char"}
           IN  (lastTI'.op = "getTypeInfo" /\ vtinfo[t] = NoTid /\ vtinfo'[t] # NoTid)
               => (basic <=> (members' = members /\ ~tids'[vtinfo'[t]].llvmTouched))
      ]_vars

\* C25 witness: the declaration of int[] was made and is neither listed nor touched
C25_Witness ==
    /\ lastTI.op = "getTypeInfo" /\ lastTI.t.ty = "Tarray" /\ lastTI.t.next = "int"
    /\ lastTI.ret # NoTid /\ vtinfo[dynamicArrayOf("int")] = lastTI.ret
    /\ ~tids[lastTI.ret].llvmTouched
    /\ \A m \in FeModules : members[m] = << >>

\* C26 as the spec states it: the exact declaration of every type is made by one of the
\* twelve generators of the kinds typedef, pointer, dynamic array, static array,
\* associative array, struct, class, interface, enum, function, delegate and tuple.
C26_Original ==
    \A x \in DOMAIN tids :
       x.internal = 0
       => x.cls \in {"TypeInfoTypedefDeclaration", "TypeInfoPointerDeclaration",
                     "TypeInfoArrayDeclaration", "TypeInfoStaticArrayDeclaration",
                     "TypeInfoAssociativeArrayDeclaration", "TypeInfoStructDeclaration",
                     "TypeInfoClassDeclaration", "TypeInfoInterfaceDeclaration",
                     "TypeInfoEnumDeclaration", "TypeInfoFunctionDeclaration",
                     "TypeInfoDelegateDeclaration", "TypeInfoTupleDeclaration"}

\* C26 amended: the exact declaration of a type is of the one class its kind selects:
\* the class of the kind for the eleven kinds typedef, pointer, dynamic array, static
\* array, associative array, struct, enum, function, delegate and tuple, the interface
\* class for a class type whose symbol is an interface and the class class for any
\* other class type, and the generic TypeInfoDeclaration for every other kind (the basic
\* types); it is the declaration of the merged type and is held by that type's vtinfo,
\* and no type object that is not the merged one holds a declaration.
C26_Dispatch ==
    LET generator == [k \in TY |->
            CASE k = "Ttypedef" -> {"TypeInfoTypedefDeclaration"}
              [] k = "Tpointer" -> {"TypeInfoPointerDeclaration"}
              [] k = "Tarray" -> {"TypeInfoArrayDeclaration"}
              [] k = "Tsarray" -> {"TypeInfoStaticArrayDeclaration"}
              [] k = "Taarray" -> {"TypeInfoAssociativeArrayDeclaration"}
              [] k = "Tstruct" -> {"TypeInfoStructDeclaration"}
              [] k = "Tclass" -> {"TypeInfoClassDeclaration", "TypeInfoInterfaceDeclaration"}
              [] k = "Tenum" -> {"TypeInfoEnumDeclaration"}
              [] k = "Tfunction" -> {"TypeInfoFunctionDeclaration"}
              [] k = "Tdelegate" -> {"TypeInfoDelegateDeclaration"}
              [] k = "Ttuple" -> {"TypeInfoTupleDeclaration"}
              [] OTHER -> {"TypeInfoDeclaration"}]
    IN  /\ \A x \in DOMAIN tids :
              x.internal = 0
              => /\ x.cls \in generator[x.tinfo.ty]
                 /\ x.tinfo.ty = "Tclass"
                    => (x.cls = "TypeInfoInterfaceDeclaration"
                        <=> x.tinfo.sym \in {"I", "J"})
                 /\ x.tinfo.copy = 0 /\ vtinfo[x.tinfo] = x
        /\ \A t \in DOMAIN vtinfo : vtinfo[t] # NoTid => t.copy = 0

\* C26 witness: an unmerged object of the interface I was asked for and got the
\* interface declaration of the merged I
C26_Witness ==
    /\ lastTI.op = "getTypeInfo" /\ lastTI.t.sym = "I" /\ lastTI.t.copy # 0
    /\ lastTI.ret # NoTid /\ lastTI.ret.cls = "TypeInfoInterfaceDeclaration"
    /\ lastTI.ret.tinfo = Leaf("I") /\ vtinfo[Leaf("I")] = lastTI.ret

(***************************************************************************)
(* Properties of the catalogue                                             *)
(***************************************************************************)

\* C27: the runtime module declares every allocation routine (_d_allocmemoryT, the
\* three _d_newarray*T, the three _d_newarraym*T, _d_allocclass) with NoAlias on the
\* return value, and the declaration a fetchFunction call inserts for one of them into
\* a target that did not declare it has NoAlias on the return value.
C27_AllocNoAlias ==
    [][ /\ M'.inst # 0
           => \A n \in AllocNames :
                 LET r == getFunction(M'.decls, n)
                 IN  r # NoDecl /\ <<0, NoAlias>> \in r.attrs
        /\ (last' # last /\ last'.op = "fetchFunction" /\ last'.outcome = "ok"
              /\ last'.name \in AllocNames
              /\ getNamedValue(targets[last'.target], last'.name) = NoDecl)
           => \E d \in targets'[last'.target] \ targets[last'.target] :
                 /\ d.name = last'.name /\ d.id = last'.handle
                 /\ <<0, NoAlias>> \in d.attrs
      ]_vars

\* C27 witness: _d_allocclass was inserted into the second target with NoAlias on its
\* return value
C27_Witness ==
    /\ last.op = "fetchFunction" /\ last.outcome = "ok" /\ last.name = "_d_allocclass"
    /\ last.target = 2
    /\ \E d \in targets[2] :
          d.name = last.name /\ d.id = last.handle /\ d.attrs = Attr_NoAlias

\* C28: the runtime module declares _d_toObject, _d_interface_cast and _d_dynamic_cast
\* with ReadOnly and NoUnwind on the function, and the declaration a fetchFunction call
\* inserts for one of them into a target that did not declare it carries both.
C28_CastReadOnlyNoUnwind ==
    [][ /\ M'.inst # 0
           => \A n \in CastNames :
                 LET r == getFunction(M'.decls, n)
                 IN  /\ r # NoDecl
                     /\ <<FnIdx, ReadOnly>> \in r.attrs /\ <<FnIdx, NoUnwind>> \in r.attrs
        /\ (last' # last /\ last'.op = "fetchFunction" /\ last'.outcome = "ok"
              /\ last'.name \in CastNames
              /\ getNamedValue(targets[last'.target], last'.name) = NoDecl)
           => \E d \in targets'[last'.target] \ targets[last'.target] :
                 /\ d.name = last'.name /\ d.id = last'.handle
                 /\ <<FnIdx, ReadOnly>> \in d.attrs /\ <<FnIdx, NoUnwind>> \in d.attrs
      ]_vars

\* C28 witness: _d_dynamic_cast was inserted into a target, read-only and non-throwing,
\* after the runtime module had been freed and built again
C28_Witness ==
    /\ last.op = "fetchFunction" /\ last.outcome = "ok" /\ last.name = "_d_dynamic_cast"
    /\ builds = 2
    /\ \E d \in targets[last.target] :
          d.name = last.name /\ d.id = last.handle /\ d.attrs = Attr_ReadOnly_NoUnwind

\* C29 as the spec states it: _aaLen and _aaIn are declared ReadOnly and NoUnwind, and
\* every parameter of an associative array routine that is a key pointer (void*) or a
\* delegate has NoCapture.
C29_Original ==
    M.inst # 0
    => /\ \A n \in {"_aaLen", "_aaIn"} :
             LET r == getFunction(M.decls, n)
             IN  <<FnIdx, ReadOnly>> \in r.attrs /\ <<FnIdx, NoUnwind>> \in r.attrs
       /\ \A n \in AANames :
             LET r == getFunction(M.decls, n)
             IN  \A i \in 1..Len(r.ty.params) :
                    r.ty.params[i] \in {voidPtrTy, rt_dg1, rt_dg2}
                    => <<i, NoCapture>> \in r.attrs

\* C29 amended: _aaLen is declared ReadOnly and NoUnwind and _aaIn ReadOnly but not
\* NoUnwind; the key pointer of _aaGet, _aaIn and _aaDel has NoCapture, and so has the
\* associative array parameter of every routine but _aaRehash; the delegate parameter
\* of _aaApply and _aaApply2 has no attribute.  The declaration a fetchFunction call
\* inserts for one of these routines carries the same attributes.
C29_AAAttributes ==
    [][ /\ (M' # M /\ M'.inst # 0)
           => /\ \A n \in AANames : getFunction(M'.decls, n) # NoDecl
              /\ LET aaLen == getFunction(M'.decls, "_aaLen")
                     aaIn == getFunction(M'.decls, "_aaIn")
                 IN  /\ <<FnIdx, ReadOnly>> \in aaLen.attrs
                     /\ <<FnIdx, NoUnwind>> \in aaLen.attrs
                     /\ <<FnIdx, ReadOnly>> \in aaIn.attrs
                     /\ <<FnIdx, NoUnwind>> \notin aaIn.attrs
              /\ \A n \in AANames :
                    LET r == getFunction(M'.decls, n)
                    IN  \A i \in 1..Len(r.ty.params) :
                           /\ r.ty.params[i] = voidPtrTy => <<i, NoCapture>> \in r.attrs
                           /\ (r.ty.params[i] = aaTy /\ n # "_aaRehash")
                              => <<i, NoCapture>> \in r.attrs
                           /\ r.ty.params[i] \in {rt_dg1, rt_dg2}
                              => \A a \in r.attrs : a[1] # i
        /\ (last' # last /\ last'.op = "fetchFunction" /\ last'.outcome = "ok"
              /\ last'.name \in AANames
              /\ getNamedValue(targets[last'.target], last'.name) = NoDecl)
           => \E d \in targets'[last'.target] \ targets[last'.target] :
                 /\ d.name = last'.name /\ d.id = last'.handle
                 /\ d.attrs = getFunction(M'.decls, last'.name).attrs
      ]_vars

\* C29 witness: _aaApply was inserted into a target with NoCapture on its first
\* parameter only, its third parameter being the delegate
C29_Witness ==
    /\ last.op = "fetchFunction" /\ last.outcome = "ok" /\ last.name = "_aaApply"
    /\ \E d \in targets[last.target] :
          /\ d.name = last.name /\ d.id = last.handle
          /\ d.ty.params[3] = rt_dg1 /\ d.attrs = {<<1, NoCapture>>}

\* C30: the runtime module declares every _d_array_init_* routine, _d_array_init_mem
\* and _d_array_slice_copy with NoCapture on parameter 1, the last two with NoCapture
\* on parameter 3 as well, and _adEq, _adCmp, _adCmpChar and the three _d_switch_*string
\* routines with ReadOnly, in every runtime module that is built; parameters 1 and 3
\* are the pointer parameters.  The declaration a fetchFunction call inserts for one of
\* these carries the same attributes.
C30_ArrayAttributes ==
    [][ /\ (M' # M /\ M'.inst # 0)
           => /\ \A n \in ArrayInitNames \cup ArrayCopyNames :
                    LET r == getFunction(M'.decls, n)
                    IN  /\ r # NoDecl /\ <<1, NoCapture>> \in r.attrs
                        /\ r.ty.params[1] \in {rt_ptr(r.ty.params[3]), voidPtrTy}
              /\ \A n \in ArrayCopyNames :
                    LET r == getFunction(M'.decls, n)
                    IN  <<3, NoCapture>> \in r.attrs /\ r.ty.params[3] = voidPtrTy
              /\ \A n \in CompareNames :
                    LET r == getFunction(M'.decls, n)
                    IN  r # NoDecl /\ <<FnIdx, ReadOnly>> \in r.attrs
        /\ (last' # last /\ last'.op = "fetchFunction" /\ last'.outcome = "ok"
              /\ last'.name \in ArrayInitNames \cup ArrayCopyNames \cup CompareNames
              /\ getNamedValue(targets[last'.target], last'.name) = NoDecl)
           => \E d \in targets'[last'.target] \ targets[last'.target] :
                 /\ d.name = last'.name /\ d.id = last'.handle
                 /\ d.attrs = getFunction(M'.decls, last'.name).attrs
                 /\ d.attrs # NoAttrs
      ]_vars

\* C30 witness: _d_array_init_mem was inserted into a target with NoCapture on its
\* destination and source pointers
C30_Witness ==
    /\ last.op = "fetchFunction" /\ last.outcome = "ok" /\ last.name = "_d_array_init_mem"
    /\ \E d \in targets[last.target] :
          /\ d.name = last.name /\ d.id = last.handle
          /\ d.attrs = {<<1, NoCapture>>, <<3, NoCapture>>}

(***************************************************************************)
(* Properties of the runtime module's life cycle                           *)
(***************************************************************************)

\* C31: a runtime module that has just been built holds one declaration for each entry of
\* the catalogue and nothing else: no two entries have the same name, and the lookup of
\* an entry's name gives a function of that name with the entry's type and attributes.
C31_OnePerName ==
    [][ (M' # M /\ M'.inst # 0)
        => /\ Cardinality(M'.decls) = Len(Catalogue)
           /\ Cardinality(CatalogueNames) = Len(Catalogue)
           /\ \A d1, d2 \in M'.decls : d1.name = d2.name => d1 = d2
           /\ \A i \in 1..Len(Catalogue) :
                 /\ getFunction(M'.decls, Catalogue[i].name) \in M'.decls
                 /\ getFunction(M'.decls, Catalogue[i].name).name = Catalogue[i].name
                 /\ getFunction(M'.decls, Catalogue[i].name).ty = Catalogue[i].ty
                 /\ getFunction(M'.decls, Catalogue[i].name).attrs = Catalogue[i].attrs ]_vars

\* C31 witness: the second module of a session was built by a fetchFunction and the
\* function it handed out has the type and the attributes the lookup in that module gives
C31_Witness ==
    /\ M.inst = 2 /\ builds = 2
    /\ last.op = "fetchFunction" /\ last.outcome = "ok" /\ last.name = "_aaLen"
    /\ \E d \in targets[last.target] :
          /\ d.id = last.handle
          /\ d.ty = getFunction(M.decls, last.name).ty
          /\ d.attrs = getFunction(M.decls, last.name).attrs
          /\ d.attrs = Attr_ReadOnly_NoUnwind_1_NoCapture

\* C32: the test of M and the construction are not one step.  Every construction is by a
\* thread that found M null, no thread constructs twice, and the module M points to is
\* the last one constructed, any earlier one being overwritten; a host with one thread
\* constructs at most one module, and a second construction takes a second thread.
C32_UnsynchronizedBuild ==
    /\ builds = Cardinality({th \in DOMAIN threads : threads[th].know = "stored"})
    /\ M.inst = builds
    /\ Cardinality(DOMAIN threads) = 1 => builds <= 1
    /\ \A th \in DOMAIN threads : threads[th].pc = "L43" => threads[th].know = "none"

\* C32 witness: two threads each found M null and each constructed a module, one in
\* initRuntime and one in a fetchFunction that has yet to look its function up; the first
\* module is overwritten by the second
C32_Witness ==
    /\ builds = 2 /\ M.inst = 2
    /\ \E t1, t2 \in DOMAIN threads :
          /\ t1 # t2
          /\ threads[t1].know = "stored" /\ threads[t2].know = "stored"
          /\ threads[t1].op = "initRuntime" \/ threads[t1].pc = "idle"
          /\ threads[t2].op = "fetchFunction" /\ threads[t2].pc = "L71"

\* C33: once a built module has been freed, the next initRuntime, the next fetchFunction
\* with runtime calls allowed and the next fetchGlobal with runtime calls allowed of a
\* name the target has no global of each build a new module, one that is not the freed
\* one, and do not end at the assertion; after a fetchFunction that returned a function
\* the runtime module is built.
C33_UsableAfterFree ==
    [][ /\ (/\ last' # last /\ M.inst = 0 /\ builds > 0
            /\ \/ last'.op = "initRuntime"
               \/ ~noruntime /\ last'.op = "fetchFunction"
               \/ /\ ~noruntime /\ last'.op = "fetchGlobal"
                  /\ getNamedGlobal(targets[last'.target], last'.name) = NoDecl)
           => /\ builds' = builds + 1
              /\ M'.inst = builds'
              /\ M'.decls = CreateAll
              /\ last'.outcome # AssertRuntimeFailed
        /\ (last'.op = "fetchFunction" /\ last'.outcome = "ok") => M'.inst # 0 ]_vars

\* C33 witness: after a module was freed, a fetchFunction returned a function the target
\* did not have, taken from the second module
C33_Witness ==
    /\ builds = 2 /\ M.inst = 2
    /\ last.op = "fetchFunction" /\ last.outcome = "ok" /\ last.name = "_d_toObject"
    /\ Cardinality(targets[last.target]) = 1
    /\ \E d \in targets[last.target] : d.id = last.handle /\ d.attrs = Attr_ReadOnly_NoUnwind

\* C34: freeRuntime leaves M null and changes nothing else: not the count of modules
\* built, no target module, no type's vtinfo, no declaration's latch or value, no slot of
\* internalTI and no member list; when M is null already it changes nothing at all.
C34_FreeOnlyFrees ==
    [][ (last' # last /\ last'.op = "freeRuntime")
        => /\ M' = NullModule
           /\ M.inst = 0 => M' = M
           /\ UNCHANGED <<noruntime, runtime_failed, builds, targets, gIR_module, fatal, names,
                          vtinfo, tids, internalTI, members, lastTI, tyset, threads>> ]_vars

\* C34 witness: the module was freed in a session whose target holds a fetched function and
\* a resolved declaration and whose internalTI has the class slot filled
C34_Witness ==
    /\ last.op = "freeRuntime" /\ M.inst = 0 /\ builds > 0
    /\ \E d \in targets[gIR_module] : d.name = "_d_toObject" /\ d.attrs = Attr_ReadOnly_NoUnwind
    /\ internalTI["Tclass"] # NoTid
    /\ vtinfo[Leaf("C")] # NoTid
    /\ tids[vtinfo[Leaf("C")]].llvmTouched
    /\ Len(members[1]) = 1

(***************************************************************************)
(* Properties of the emission into several target modules                  *)
(***************************************************************************)

\* C35: while the compilation has not ended with a fatal diagnostic, a declaration whose
\* llvmTouched is set has an llvmValue, a global of a target module; llvmTouched is set
\* before the registry is asked, so a fetchGlobal that ended the compilation leaves its
\* declaration touched and without a value, and no other state has such a declaration.
C35_TouchedResolved ==
    /\ \A x \in DOMAIN tids :
          tids[x].llvmTouched
          => IF fatal = "none"
             THEN \E t \in Targets : \E d \in targets[t] :
                     d.id = tids[x].llvmValue /\ d.kind = "gv" /\ d.name = mangle(x)
             ELSE tids[x].llvmValue = NullId => mangle(x) = last.name
    /\ (fatal # "none" /\ last.op = "fetchGlobal")
       => \E x \in DOMAIN tids :
             mangle(x) = last.name /\ tids[x].llvmTouched /\ tids[x].llvmValue = NullId

\* C35 witness: a declaration was emitted into the second target module and has the
\* global of that module as its value, while the first module has none of that name
C35_Witness ==
    /\ fatal = "none" /\ gIR_module = 2
    /\ \E x \in DOMAIN tids :
          /\ tids[x].llvmTouched
          /\ tids[x].llvmValue.owner = 2
          /\ getNamedValue(targets[1], mangle(x)) = NoDecl

\* C36 as the spec states it: after a toObjFile on a declaration that did not end the
\* compilation, the module that is active holds a global of the declaration's mangled
\* name, also when the declaration was emitted before while another module was active.
C36_ActiveModuleDeclares ==
    [][ (lastTI' # lastTI /\ lastTI'.op = "toObjFile" /\ fatal' = "none")
        => \E d \in targets'[gIR_module] :
              d.name = mangle(lastTI'.ret) /\ d.kind = "gv" ]_vars

\* C37: a declaration made by getInternalTypeInfo for a slot of internalTI is no type's
\* vtinfo, is in no member list and is not touched; a getInternalTypeInfo that returns
\* such a declaration returns the slot's, which is not the vtinfo of the type, and
\* changes no vtinfo and no member list, and a getTypeInfo returns no such declaration
\* and changes no slot.
C37_PlaceholderDetached ==
    [][ /\ \A x \in DOMAIN tids' :
              x.internal = 1
              => /\ \A t \in DOMAIN vtinfo' : vtinfo'[t] # x
                 /\ \A m \in FeModules : \A i \in 1..Len(members'[m]) : members'[m][i] # x
                 /\ ~tids'[x].llvmTouched
        /\ (lastTI' # lastTI /\ lastTI'.op = "getInternalTypeInfo" /\ lastTI'.ret.internal = 1)
           => /\ lastTI'.ret = internalTI'[toBasetype(lastTI'.t).ty]
              /\ lastTI'.ret # vtinfo'[merge(toBasetype(lastTI'.t))]
              /\ vtinfo' = vtinfo
              /\ members' = members
        /\ (lastTI' # lastTI /\ lastTI'.op = "getTypeInfo")
           => /\ internalTI' = internalTI
              /\ lastTI'.ret.internal # 1
              /\ fatal' = "none" => lastTI'.ret = vtinfo'[merge(lastTI'.t)] ]_vars

\* C37 witness: getInternalTypeInfo on a delegate type whose exact declaration is in a
\* member list returned the slot's declaration, another one
C37_Witness ==
    /\ lastTI.op = "getInternalTypeInfo" /\ lastTI.t.ty = "Tdelegate"
    /\ lastTI.ret.internal = 1 /\ lastTI.ret = internalTI["Tdelegate"]
    /\ vtinfo[merge(lastTI.t)] # NoTid
    /\ vtinfo[merge(lastTI.t)] # lastTI.ret
    /\ \E i \in 1..Len(members[1]) : members[1][i] = vtinfo[merge(lastTI.t)]

(***************************************************************************)
(* Properties of the policy and of the construction on demand              *)
(***************************************************************************)

\* C38: under -noruntime no fetchFunction and no fetchGlobal builds the runtime module:
\* M and the count of modules built are after the call what they were before it, and a
\* call the policy ended changed no target module either.
C38_BlockedFetchBuildsNothing ==
    [][ (noruntime /\ last' # last /\ last'.op \in {"fetchFunction", "fetchGlobal"})
        => /\ M' = M
           /\ builds' = builds
           /\ last'.outcome = PolicyViolation => (targets' = targets /\ fatal' = PolicyViolation)
           /\ last'.op = "fetchFunction" => last'.outcome = PolicyViolation ]_vars

\* C38 witness: under -noruntime a fetchGlobal of a name the target lacks was ended by the
\* policy in a session whose module had been built and freed, and M is still null
C38_Witness ==
    /\ noruntime /\ last.op = "fetchGlobal" /\ last.outcome = PolicyViolation
    /\ fatal = PolicyViolation
    /\ M.inst = 0 /\ builds = 1

\* C39: runtime_failed is false in every state, and no fetch ends at the assertion that
\* guards the construction on demand.
C39_NeverFailed ==
    /\ runtime_failed = FALSE
    /\ fatal # AssertRuntimeFailed
    /\ last.outcome # AssertRuntimeFailed

\* C39 witness: after a module was built and freed, a fetchGlobal with runtime calls
\* allowed passed the assertion, built the second module and did not find its global there
C39_Witness ==
    /\ ~noruntime /\ ~runtime_failed
    /\ last.op = "fetchGlobal" /\ last.outcome = GlobalNotFound
    /\ M.inst = 2 /\ builds = 2
====
